---- MODULE Spec2Model ----
(***************************************************************************)
(* The HTTP/1 connection dispatcher of xitca-web                           *)
(* (http/src/h1/proto/dispatcher.rs): one connection, one task.            *)
(*                                                                         *)
(* Bytes are modelled at the granularity of protocol units: a unit of the  *)
(* read buffer is a request head, one body byte, one chunk frame or the    *)
(* last-chunk marker; a unit of the write buffer is a response head, the   *)
(* 100 Continue line, one encoded body chunk or the chunked terminator.    *)
(*                                                                         *)
(* A select is biased: arm A is polled first in every poll, arm B only     *)
(* when A is pending.  turn = "A" is the start of a poll (and the time     *)
(* between polls); turn = "B" is the rest of the poll, in which arm B runs *)
(* from await to await until one of its awaits is pending.                 *)
(***************************************************************************)
EXTENDS Naturals, Sequences, FiniteSets

\* ---- bounds of the model
MaxReq == 2         \* requests the peer sends on the connection
MaxChunks == 1      \* chunks a response-body stream yields before it ends
MaxReqLive == 1     \* requests the peer sends where progress is checked

\* ---- program constants (const generics of the dispatcher), in units
READ_BUF_LIMIT == 3
WRITE_BUF_LIMIT == 2

VARIABLES
    pc,           \* position of Dispatcher::run
    result,       \* what Dispatcher::run returned, "none" while it runs
    turn,         \* inside a select: "A" at the start of a poll, "B" while arm B runs
    bpc,          \* the await arm B of the current select is parked on
    ctype,        \* ctx connection type: "Init", "KeepAlive", "Close"
    expect,       \* ctx.is_expect_header()
    read_buf,     \* io.read_buf: units read and not yet decoded
    write_buf,    \* io.write_buf: units encoded and not yet written
    wire,         \* units the transport has accepted, in order
    body_handle,  \* Option<RequestBodyHandle>: its decoder
    chan,         \* the request-body channel behind handle.sender
    encoder,      \* the outbound TransferCoding of the current response
    resLeft,      \* chunks the response-body stream has still to yield
    cur,          \* number of request heads decoded so far
    peer,         \* units the peer has sent and the dispatcher has not read
    nreq,         \* requests the peer has started
    shut,         \* BufferedIo::shutdown has been invoked
    force_close,  \* older dispatcher: ctx.is_force_close()
    advanced,     \* older dispatcher: read_buf.advanced(), the last try_read read bytes
    vectored,     \* older dispatcher: the write buffer is WriteBuf::List
    timer,        \* deadline of the keep-alive timer: "ka" for a keep-alive deadline
                  \* (some now + ka_dur), "first" for another the caller armed it with
    hist          \* history: readyOk (sender.ready resolved Ok and no body read since),
                  \* ungated (a body read was made without it), ioErr (a transport
                  \* operation failed with an error other than would-block while the
                  \* current response is served), forced (response_handler changed the
                  \* connection type to Close), eof (try_read read zero bytes)

vars == <<pc, result, turn, bpc, ctype, expect, read_buf, write_buf, wire,
          body_handle, chan, encoder, resLeft, cur, peer, nreq, shut, timer,
          force_close, advanced, vectored, hist>>

\* ---------------------------------------------------------------------------
\* Values
\* ---------------------------------------------------------------------------
Unit(kind) == [k |-> kind]

\* A request head with its inbound framing; its Connection and Expect headers are
\* drawn when it is decoded (Expect: 100-continue only with a body).
ReqHead(body, len) == [k |-> "head", body |-> body, len |-> len]

\* What the peer sends: a request without a body, with a Content-Length body, with a
\* chunked body of two chunks, and an upgrade request followed by raw bytes.
Requests ==
    { <<ReqHead("Eof", 0)>>,
      <<ReqHead("Length", 1), Unit("data")>>,
      <<ReqHead("Chunked", 0), Unit("chunk"), Unit("chunk"), Unit("last")>>,
      <<ReqHead("Upgrade", 0), Unit("raw")>> }

\* What the peer sends that is no request: a malformed head, a head that does not
\* end within the read buffer, and the start of a head after which it sends no more.
BadRequests ==
    { <<Unit("bad")>>, [i \in 1..READ_BUF_LIMIT |-> Unit("hp")], <<Unit("hp")>> }

\* The peer stalls in the middle of a head.
Stalls(r) == r[1].k = "hp" /\ Len(r) < READ_BUF_LIMIT

NoHandle == [some |-> FALSE, coding |-> "Eof", rem |-> 0]
NoChan == [live |-> FALSE, q |-> 0, polled |-> FALSE, dropped |-> FALSE,
           eof |-> FALSE, err |-> FALSE]
NoHist == [readyOk |-> FALSE, ungated |-> FALSE, ioErr |-> FALSE, forced |-> FALSE,
           eof |-> FALSE]

\* A unit of the write buffer, tagged with the request it answers.
Item(kind) == [req |-> cur, k |-> kind]

Min(a, b) == IF a < b THEN a ELSE b

Drop(s, n) == SubSeq(s, n + 1, Len(s))

Take(s, n) == SubSeq(s, 1, n)

\* ---------------------------------------------------------------------------
\* Buffers
\* ---------------------------------------------------------------------------
\* FlatBuf::backpressure of the read buffer.
ReadBackpressure(buf) == Len(buf) >= READ_BUF_LIMIT

\* BufWrite::backpressure of the write buffer.
WriteBackpressure(buf) == Len(buf) >= WRITE_BUF_LIMIT

\* BufWrite::want_write.
WantWrite(buf) == buf # << >>

\* ---------------------------------------------------------------------------
\* Wire codec
\* ---------------------------------------------------------------------------
\* Context::decode_head on the read buffer: "None" (insufficient bytes), "Ok" with the
\* head removed, "TooLarge" (no complete head and the buffer cannot grow), "Bad".
DecodeHeadResult(buf) ==
    IF buf = << >> THEN [res |-> "None", buf |-> buf]
    ELSE IF buf[1].k = "head" THEN [res |-> "Ok", buf |-> Tail(buf)]
    ELSE IF buf[1].k = "hp"
         THEN IF Len(buf) >= READ_BUF_LIMIT
              THEN [res |-> "TooLarge", buf |-> buf]
              ELSE [res |-> "None", buf |-> buf]
    ELSE [res |-> "Bad", buf |-> buf]

\* TransferCoding::decode: the next body chunk ("some"), the eof sentinel ("eof"),
\* nothing yet ("none") or malformed framing ("err").
Decode(dec, buf) ==
    CASE dec.coding = "Length" ->
            IF dec.rem = 0 THEN [res |-> "eof", dec |-> dec, buf |-> buf]
            ELSE IF buf = << >> THEN [res |-> "none", dec |-> dec, buf |-> buf]
            ELSE LET n == Min(dec.rem, Len(buf))
                 IN [res |-> "some", dec |-> [dec EXCEPT !.rem = @ - n], buf |-> Drop(buf, n)]
      [] dec.coding = "Chunked" ->
            IF buf = << >> THEN [res |-> "none", dec |-> dec, buf |-> buf]
            ELSE IF buf[1].k = "chunk" THEN [res |-> "some", dec |-> dec, buf |-> Tail(buf)]
            ELSE IF buf[1].k = "last" THEN [res |-> "eof", dec |-> dec, buf |-> Tail(buf)]
            ELSE [res |-> "err", dec |-> dec, buf |-> buf]
      [] dec.coding = "Upgrade" ->
            IF buf = << >> THEN [res |-> "none", dec |-> dec, buf |-> buf]
            ELSE [res |-> "some", dec |-> dec, buf |-> << >>]
      [] OTHER -> [res |-> "eof", dec |-> dec, buf |-> buf]

\* A faulty RequestBodyHandle::decode that asks for more without decoding what the
\* read buffer holds.
HandleDecodeLazy(dec, buf, fed) ==
    [state |-> "Continue", dec |-> dec, buf |-> buf, fed |-> fed]

\* RequestBodyHandle::decode: feed every chunk the decoder finds in the read buffer;
\* `fed` counts the feed_data calls.
RECURSIVE HandleDecode(_, _, _)
HandleDecode(dec, buf, fed) ==
    LET d == Decode(dec, buf)
    IN CASE d.res = "some" -> HandleDecode(d.dec, d.buf, fed + 1)
         [] d.res = "eof"  -> [state |-> "Eof", dec |-> d.dec, buf |-> d.buf, fed |-> fed]
         [] d.res = "err"  -> [state |-> "Err", dec |-> d.dec, buf |-> d.buf, fed |-> fed]
         [] OTHER          -> [state |-> "Continue", dec |-> d.dec, buf |-> d.buf, fed |-> fed]

\* RequestBodyHandle::new_pair: no handle for a request without a body.
NewHandle(h) ==
    IF h.body = "Eof" THEN NoHandle
    ELSE [some |-> TRUE, coding |-> h.body, rem |-> h.len]

\* RequestBody::create / RequestBody::empty of new_pair.
NewChan(h) == [NoChan EXCEPT !.live = (h.body # "Eof")]

\* Context::encode_head: the outbound coding for a body size.
EncoderFor(size, n) ==
    CASE size = "Stream" -> "Chunked"
      [] size = "Sized" /\ n > 0 -> "Length"
      [] OTHER -> "Eof"

\* TransferCoding::encode of one chunk: what is appended to the write buffer.
Encode(enc, buf) == IF enc = "Eof" THEN buf ELSE Append(buf, Item("body"))

\* TransferCoding::encode_eof: what is appended to the write buffer.
EncodeEof(enc, buf) == IF enc = "Chunked" THEN Append(buf, Item("eof")) ELSE buf

\* ---------------------------------------------------------------------------
\* Transport
\* ---------------------------------------------------------------------------
\* A read buffer that makes room for a whole read whatever it already holds.
ReadCapacityReserve(buf) == READ_BUF_LIMIT

\* FlatBuf of READ_BUF_LIMIT: the room one transport read may fill.
ReadCapacity(buf) == READ_BUF_LIMIT - Len(buf)

\* BufferedIo::try_read returning Ok: reads repeat until would-block or read
\* backpressure, taking n units of what the peer has sent.
TryRead(buf, avail) ==
    LET cap == IF ReadBackpressure(buf) THEN 0 ELSE ReadCapacity(buf)
    IN  { [buf |-> buf \o Take(avail, n), peer |-> Drop(avail, n)] :
              n \in 0..Min(cap, Len(avail)) }

\* BufWrite::flush after the transport accepted n units: what is left, what is sent.
Flushed(buf, sent, n) == [buf |-> Drop(buf, n), wire |-> sent \o Take(buf, n)]

\* A faulty try_write that hands the transport the last n units of the buffer.
TryWriteTail(buf, sent) ==
    { [buf |-> Take(buf, Len(buf) - n), wire |-> sent \o Drop(buf, Len(buf) - n)] :
          n \in 0..Len(buf) }

\* BufferedIo::try_write returning Ok: the transport accepts the first n units and
\* then blocks, or the buffer is empty.
TryWrite(buf, sent) == { Flushed(buf, sent, n) : n \in 0..Len(buf) }

\* ---------------------------------------------------------------------------
\* Initial state: Dispatcher::new
\* ---------------------------------------------------------------------------
\* The dispatcher as Dispatcher::new leaves it.
Constructed ==
    /\ pc = "gate"
    /\ result = "none"
    /\ turn = "A"
    /\ bpc = "none"
    /\ ctype = "Init"
    /\ expect = FALSE
    /\ read_buf = << >>
    /\ write_buf = << >>
    /\ wire = << >>
    /\ body_handle = NoHandle
    /\ chan = NoChan
    /\ encoder = "Eof"
    /\ resLeft = 0
    /\ cur = 0
    /\ peer = << >>
    /\ nreq = 0
    /\ shut = FALSE
    /\ hist = NoHist
    /\ force_close = FALSE
    /\ advanced = FALSE
    /\ vectored = FALSE

\* The caller hands over the timer armed with a keep-alive deadline.
Init == Constructed /\ timer = "ka"

\* The caller hands over the timer armed with a deadline of its own, which tells
\* from any that update_timer sets.
InitTimer == Constructed /\ timer = "first"

conn == <<ctype, expect>>
req == <<body_handle, chan, encoder, resLeft, cur>>
sel == <<turn, bpc>>
env == <<peer, nreq>>
out == <<write_buf, wire>>

\* The state only the older dispatcher of actix-http-alt has.
alt == <<force_close, advanced, vectored>>

\* Dispatcher::run returns `res`: the dispatcher, its read buffer and the body
\* handle are dropped, and what the peer sent is read no more.
Return(res) ==
    /\ pc' = "done"
    /\ result' = res
    /\ turn' = "A"
    /\ bpc' = "none"
    /\ read_buf' = << >>
    /\ body_handle' = NoHandle
    /\ chan' = NoChan
    /\ encoder' = "Eof"
    /\ resLeft' = 0
    /\ peer' = << >>
    /\ UNCHANGED <<conn, out, cur, nreq, shut, timer, alt>>

\* A faulty wrapper that hands the caller whatever Dispatcher::run returned.
SurfacedAsIs(res) == res

\* A faulty wrapper that gives its caller Ok whatever Dispatcher::run returned.
SurfacedQuiet(res) == "Ok"

\* A conversion that keeps every io::Error an Io error.
FromIoErrorKeeps(kind) == "Io"

\* Error::from(io::Error), which the `?` of run applies: an unexpected eof is the
\* peer's close, any other kind an Io error.
FromIoError(kind) == IF kind = "UnexpectedEof" THEN "Closed" ELSE "Io"

\* The result of the function `run` wrapping Dispatcher::run.
Surfaced(res) == IF res \in {"Ok", "Closed", "KeepAliveExpire"} THEN "Ok" ELSE res

\* ---------------------------------------------------------------------------
\* The peer
\* ---------------------------------------------------------------------------
\* The peer sends one more request, of at most `max` on the connection: a head and
\* the body its framing announces. What follows an upgrade request is no HTTP/1
\* request any more.
PeerSendOf(max) ==
    /\ pc # "done"
    /\ nreq < max
    /\ Len(peer) <= 1
    /\ \E r \in Requests :
          /\ peer' = peer \o r
          /\ nreq' = IF r[1].body = "Upgrade" THEN max ELSE nreq + 1
    /\ UNCHANGED <<pc, result, sel, conn, read_buf, out, req, shut, timer, alt, hist>>

\* The peer sends something that is no request; nothing follows a head it stalls in.
PeerSendBadOf(max) ==
    /\ pc # "done"
    /\ nreq < max
    /\ peer = << >>
    /\ \E r \in BadRequests :
          /\ peer' = r
          /\ nreq' = IF Stalls(r) THEN max ELSE nreq + 1
    /\ UNCHANGED <<pc, result, sel, conn, read_buf, out, req, shut, timer, alt, hist>>

PeerSend == PeerSendOf(MaxReq)

PeerSendBad == PeerSendBadOf(MaxReq)

\* The same peer, on the connections whose progress is checked.
PeerSendLive == PeerSendOf(MaxReqLive)

PeerSendBadLive == PeerSendBadOf(MaxReqLive)

\* ---------------------------------------------------------------------------
\* Dispatcher::run
\* ---------------------------------------------------------------------------
\* A faulty gate that reads on whatever the connection type.
GateNextOpen(ct) == "read"

\* A faulty gate that shuts the transport down whatever the connection type.
GateNextShuts(ct) == "shutdown"

\* Where the pre-read gate goes: shutdown on Close, else (after update_timer on
\* KeepAlive) the read.
GateNext(ct) == IF ct = "Close" THEN "shutdown" ELSE "read"

\* A faulty gate that never touches the timer.
UpdateTimerNever(ct, deadline) == deadline

\* The timer's deadline after the pre-read gate: update_timer on KeepAlive only.
UpdateTimer(ct, deadline) == IF ct = "KeepAlive" THEN "ka" ELSE deadline

\* The pre-read gate at the top of run's loop.
Gate ==
    /\ pc = "gate"
    /\ pc' = GateNext(ctype)
    /\ timer' = UpdateTimer(ctype, timer)
    /\ shut' = (shut \/ pc' = "shutdown")
    /\ UNCHANGED <<result, sel, conn, read_buf, out, req, env, alt, hist>>

\* BufferedIo::shutdown resolves Ok, and run returns.
Shutdown ==
    /\ pc = "shutdown"
    /\ Return("Ok")
    /\ UNCHANGED hist

\* What the poll of the transport's readiness may find: ready when the peer's bytes
\* wait to be read, ready (end of file, an error, a wake-up for nothing) or pending
\* when none do.
Readable(avail) == IF avail # << >> THEN {TRUE} ELSE BOOLEAN

\* A faulty TimeoutFuture::poll that polls the timer before the future.
TimeoutPollTimerFirst(ready, fired) ==
    IF fired THEN "timeout" ELSE IF ready THEN "fut" ELSE "pending"

\* TimeoutFuture::poll: the future is polled first and its output returned as Ok;
\* the timer is polled only when the future is pending, its firing returned as Err.
TimeoutPoll(ready, fired) ==
    IF ready THEN "fut" ELSE IF fired THEN "timeout" ELSE "pending"

\* The outcomes a poll of io.read().timeout(timer) can have with `avail` sent by the
\* peer and not yet read, whether the deadline has passed or not.
TimeoutOutcomes(avail) ==
    { TimeoutPoll(ready, fired) : ready \in Readable(avail), fired \in BOOLEAN }

\* io.read().timeout(timer): the transport is readable and try_read returns Ok.
Read ==
    /\ pc = "read"
    /\ "fut" \in TimeoutOutcomes(peer)
    /\ \E r \in TryRead(read_buf, peer) :
          /\ read_buf' = r.buf
          /\ peer' = r.peer
    /\ pc' = "decode"
    /\ UNCHANGED <<result, sel, conn, out, req, nreq, shut, timer, alt, hist>>

\* io.read().timeout(timer): the read is pending and the keep-alive timer fires.
KeepAliveExpire ==
    /\ pc = "read"
    /\ "timeout" \in TimeoutOutcomes(peer)
    /\ Return("KeepAliveExpire")
    /\ UNCHANGED hist

\* A faulty run that decodes the next head without looking at the connection type.
AfterResponseOpen(ct) == "decode"

\* A faulty run whose `break 'req` leaves the loop past drain_write.
AfterResponseUndrained(ct) == IF ct = "Close" THEN "gate" ELSE "decode"

\* Where run goes after response_handler returned Ok: `break 'req` (to drain_write)
\* when the connection is closed, else decode_head again.
AfterResponse(ct) == IF ct = "Close" THEN "drain" ELSE "decode"

\* A faulty request_error that leaves the connection type as it is.
RequestErrorKeepsOpen(kind) ==
    /\ write_buf' = Append(write_buf, [req |-> cur + 1, k |-> kind])
    /\ pc' = "drain"
    /\ UNCHANGED <<result, sel, conn, read_buf, wire, req, env, shut, timer, alt, hist>>

\* request_error: force Close and encode the canned response head.
RequestError(kind) ==
    /\ ctype' = "Close"
    /\ write_buf' = Append(write_buf, [req |-> cur + 1, k |-> kind])
    /\ pc' = "drain"
    /\ UNCHANGED <<result, sel, expect, read_buf, wire, req, env, shut, timer, alt, hist>>

\* decode_head and the arm of run's match it selects.
DecodeHead ==
    /\ pc = "decode"
    /\ LET d == DecodeHeadResult(read_buf)
       IN CASE d.res = "None" ->
                 /\ pc' = "drain"
                 /\ UNCHANGED <<result, sel, conn, read_buf, out, req, env, shut, timer, alt, hist>>
            [] d.res = "Ok" ->
                 \E close \in BOOLEAN, e \in {FALSE, read_buf[1].body # "Eof"} :
                    /\ read_buf' = d.buf
                    /\ ctype' = IF close THEN "Close" ELSE "KeepAlive"
                    /\ expect' = e
                    /\ cur' = cur + 1
                    /\ body_handle' = NewHandle(read_buf[1])
                    /\ chan' = NewChan(read_buf[1])
                    /\ pc' = "serve"
                    /\ turn' = "A"
                    /\ bpc' = "start"
                    /\ UNCHANGED <<result, out, encoder, resLeft, env, shut, timer, alt, hist>>
            [] d.res = "TooLarge" -> RequestError("too_large")
            [] OTHER -> RequestError("bad_request")

\* A faulty drain_write that returns with bytes still pending.
DrainSkips(buf) == "gate"

\* A faulty drain_write that gives up with one unit left to write.
DrainNextButOne(buf) == IF Len(buf) > 1 THEN "drain" ELSE "gate"

\* Where run is when drain_write after the inner loop finds the write buffer `buf`:
\* still writing, or back at the top of the loop.
DrainNext(buf) == IF WantWrite(buf) THEN "drain" ELSE "gate"

\* drain_write after the inner loop: write until the write buffer is empty.
Drain ==
    /\ pc = "drain"
    /\ pc' = DrainNext(write_buf)
    /\ IF pc' = "drain"
       THEN \E f \in TryWrite(write_buf, wire) :
               write_buf' = f.buf /\ wire' = f.wire
       ELSE UNCHANGED out
    /\ UNCHANGED <<result, sel, conn, read_buf, req, env, shut, timer, alt, hist>>

\* ---------------------------------------------------------------------------
\* The service: the future of service.call, the response-body stream and the
\* receiver end of the request body they hold
\* ---------------------------------------------------------------------------
Serving == pc \in {"serve", "respond"}

\* The channel once the dispatcher dropped its sender: after feed_eof ("eof"), after
\* feed_error ("err"), or with nothing fed because the receiver was dropped ("drop").
Gone(how) ==
    [NoChan EXCEPT !.eof = (how = "eof"), !.err = (how = "err"),
                   !.dropped = (how = "drop")]

\* The receiver polls the request body: the first poll wakes wait_for_poll, and a
\* chunk that was fed is taken.
SvcPollBody ==
    /\ Serving /\ turn = "A"
    /\ chan.live /\ ~chan.dropped
    /\ chan' = [chan EXCEPT !.polled = TRUE, !.q = IF @ > 0 THEN @ - 1 ELSE 0]
    /\ UNCHANGED <<pc, result, sel, conn, read_buf, out, body_handle, encoder, resLeft,
                   cur, env, shut, timer, alt, hist>>

\* The receiver is dropped, and with it the chunks it had not taken.
SvcDropBody ==
    /\ Serving /\ turn = "A"
    /\ chan.live /\ ~chan.dropped
    /\ chan' = [NoChan EXCEPT !.live = TRUE, !.dropped = TRUE]
    /\ UNCHANGED <<pc, result, sel, conn, read_buf, out, body_handle, encoder, resLeft,
                   cur, env, shut, timer, alt, hist>>

\* A faulty run that enters response_handler without the body handle.
HandleAfterServiceNone(handle) == NoHandle

\* The body handle run passes to response_handler: the Option request_handler
\* borrowed, as request_body_handler left it.
HandleAfterService(handle) == handle

\* request_handler: service.call is ready with a response; run encodes its head and
\* enters response_handler.
SvcReturn ==
    /\ pc = "serve" /\ turn = "A"
    /\ \E size \in {"None", "Sized", "Stream"}, n \in 0..MaxChunks :
          /\ size = "None" => n = 0
          /\ size = "Sized" => n > 0
          /\ encoder' = EncoderFor(size, n)
          /\ resLeft' = n
    /\ write_buf' = Append(write_buf, Item("head"))
    /\ pc' = "respond"
    /\ bpc' = "start"
    /\ body_handle' = HandleAfterService(body_handle)
    /\ hist' = [hist EXCEPT !.readyOk = FALSE]
    /\ UNCHANGED <<result, turn, conn, read_buf, wire, chan, cur, env, shut, timer, alt>>

\* A faulty run that encodes a response head for the request before it returns the
\* service's error.
SvcErrorAnswers ==
    /\ pc = "serve" /\ turn = "A"
    /\ pc' = "done" /\ result' = "Service"
    /\ write_buf' = Append(write_buf, Item("head"))
    /\ bpc' = "none" /\ read_buf' = << >> /\ peer' = << >>
    /\ body_handle' = NoHandle /\ chan' = NoChan
    /\ encoder' = "Eof" /\ resLeft' = 0
    /\ hist' = [hist EXCEPT !.readyOk = FALSE]
    /\ UNCHANGED <<turn, conn, wire, cur, nreq, shut, timer, alt>>

\* request_handler: service.call is ready with an error.
SvcError ==
    /\ pc = "serve" /\ turn = "A"
    /\ Return("Service")
    /\ hist' = [hist EXCEPT !.readyOk = FALSE]

\* The await at `at` of arm B is pending, with channel `ch` and write buffer `buf`:
\* a transport wait can always be.
Parked(at, ch, buf) ==
    CASE at = "wait_poll"  -> ~ch.dropped /\ ~ch.polled
      [] at = "cont_drain" -> WantWrite(buf)
      [] at \in {"ready", "rdy0", "sel"} -> ~ch.dropped /\ ch.q > 0
      [] at \in {"read", "rd", "rw", "wop", "pending"} -> TRUE
      [] OTHER -> FALSE

\* A faulty Select::poll that goes on with arm B, pending or not, and does not come
\* back to arm A.
PollArmBOnly(at, ch, buf) == "B"

\* Select::poll: arm A is polled first and arm B only when A is pending. Arm B runs
\* from await to await until one is pending, which ends the poll ("A": the next
\* poll starts with arm A again).
Poll(at, ch, buf) == IF Parked(at, ch, buf) THEN "A" ELSE "B"

\* ---------------------------------------------------------------------------
\* request_body_handler (arm B of request_handler's select)
\* ---------------------------------------------------------------------------
InReqBody(at) == pc = "serve" /\ bpc = at

\* A faulty RequestBodyHandle::ready that leaves the connection type alone.
ReadyErrKeeps(ct) == ct

\* The connection type after RequestBodyHandle::ready failed.
ReadyErrCtype(ct) == "Close"

\* The connection type after RequestBodyHandle::wait_for_poll failed.
WaitErrCtype(ct) == ct

\* A faulty _request_body_handler that waits for the poll, and encodes 100 Continue,
\* whether or not the request has Expect: 100-continue.
FirstAwaitAlways(handle, exp) == IF ~handle.some THEN "pending" ELSE "wait_poll"

\* The first await of request_body_handler: pending() without a handle,
\* wait_for_poll for a request with Expect: 100-continue, else handle.ready.
FirstAwait(handle, exp) ==
    IF ~handle.some THEN "pending"
    ELSE IF exp THEN "wait_poll" ELSE "ready"

\* A faulty request_body_handler that starts over when the body is done with.
AfterBodyStartsOver == "start"

\* request_body_handler once _request_body_handler returned Ok: the handle is
\* cleared and pending() is awaited, which never resolves.
AfterBody == "pending"

\* The first poll of request_body_handler, up to its first await.
ReqBodyStart ==
    /\ InReqBody("start")
    /\ bpc' = FirstAwait(body_handle, expect)
    /\ UNCHANGED <<pc, result, conn, read_buf, out, req, env, shut, timer, alt, hist>>
    /\ turn' = Poll(bpc', chan', write_buf')

\* handle.wait_for_poll resolves: Ok encodes 100 Continue and starts drain_write,
\* Err gives the body up without a 100 Continue.
ReqBodyWaitPoll ==
    /\ InReqBody("wait_poll")
    /\ IF chan.dropped
       THEN /\ ctype' = WaitErrCtype(ctype)
            /\ body_handle' = NoHandle
            /\ chan' = Gone("drop")
            /\ bpc' = AfterBody
            /\ UNCHANGED write_buf
       ELSE /\ chan.polled
            /\ write_buf' = Append(write_buf, Item("cont"))
            /\ bpc' = "cont_drain"
            /\ UNCHANGED <<ctype, body_handle, chan>>
    /\ UNCHANGED <<pc, result, expect, read_buf, wire, encoder, resLeft, cur, env, shut, timer, alt,
                   hist>>
    /\ turn' = Poll(bpc', chan', write_buf')

\* A faulty _request_body_handler that does not drain the 100 Continue.
AfterContinueEager(buf) == "ready"

\* Where _request_body_handler is once 100 Continue is encoded and drain_write
\* finds the write buffer `buf`: still draining, or on to handle.ready.
AfterContinue(buf) == IF WantWrite(buf) THEN "cont_drain" ELSE "ready"

\* drain_write of the 100 Continue.
ReqBodyDrain ==
    /\ InReqBody("cont_drain")
    /\ bpc' = AfterContinue(write_buf)
    /\ IF bpc' = "cont_drain"
       THEN \E f \in TryWrite(write_buf, wire) :
               write_buf' = f.buf /\ wire' = f.wire
       ELSE UNCHANGED out
    /\ UNCHANGED <<pc, result, conn, read_buf, req, env, shut, timer, alt, hist>>
    /\ turn' = Poll(bpc', chan', write_buf')

\* The channel after handle.decode fed `d.fed` chunks.
Fed(ch, d) == [ch EXCEPT !.q = @ + d.fed]

\* handle.ready resolves in _request_body_handler's loop, and on Ok handle.decode runs.
ReqBodyReady ==
    /\ InReqBody("ready")
    /\ IF chan.dropped
       THEN /\ ctype' = ReadyErrCtype(ctype)
            /\ body_handle' = NoHandle
            /\ chan' = Gone("drop")
            /\ bpc' = AfterBody
            /\ UNCHANGED <<pc, result, read_buf, out, encoder, resLeft, cur, expect, env,
                           shut, timer, alt, hist>>
            /\ turn' = Poll(bpc', chan', write_buf')
       ELSE /\ chan.q = 0
            /\ LET d == HandleDecode(body_handle, read_buf, 0)
               IN CASE d.state = "Err" ->
                         Return("Io") /\ hist' = [hist EXCEPT !.readyOk = FALSE]
                    [] d.state = "Eof" ->
                         /\ read_buf' = d.buf
                         /\ body_handle' = NoHandle
                         /\ chan' = Gone("eof")
                         /\ bpc' = AfterBody
                         /\ UNCHANGED <<pc, result, conn, out, encoder, resLeft, cur, env,
                                        shut, timer, alt, hist>>
                         /\ turn' = Poll(bpc', chan', write_buf')
                    [] OTHER ->
                         /\ read_buf' = d.buf
                         /\ body_handle' = d.dec
                         /\ chan' = Fed(chan, d)
                         /\ bpc' = "read"
                         /\ hist' = [hist EXCEPT !.readyOk = TRUE]
                         /\ UNCHANGED <<pc, result, conn, out, encoder, resLeft, cur, env,
                                        shut, timer, alt>>
                         /\ turn' = Poll(bpc', chan', write_buf')

\* The history after a transport read made for the request body.
BodyRead(h) == [h EXCEPT !.ungated = @ \/ ~h.readyOk, !.readyOk = FALSE]

\* io.read() in _request_body_handler's loop returns Ok.
ReqBodyRead ==
    /\ InReqBody("read")
    /\ \E r \in TryRead(read_buf, peer) :
          /\ read_buf' = r.buf
          /\ peer' = r.peer
    /\ bpc' = "ready"
    /\ hist' = BodyRead(hist)
    /\ UNCHANGED <<pc, result, conn, out, req, nreq, shut, timer, alt>>
    /\ turn' = Poll(bpc', chan', write_buf')

\* ---------------------------------------------------------------------------
\* response_handler: arm A is try_poll_body
\* ---------------------------------------------------------------------------
\* A faulty try_poll_body that still polls with the write buffer at its limit.
PollsBodyUpToLimit(buf) == Len(buf) <= WRITE_BUF_LIMIT

\* A faulty try_poll_body that polls whatever the write buffer holds.
PollsBodyAlways(buf) == TRUE

\* try_poll_body polls the response-body stream only without write backpressure.
PollsBody(buf) == ~WriteBackpressure(buf)

\* The next iteration of response_handler's loop: both arms are made anew.
Restart ==
    /\ turn' = "A"
    /\ bpc' = "start"

\* The stream yields a chunk: encoder.encode.
StreamChunk ==
    /\ pc = "respond" /\ turn = "A"
    /\ PollsBody(write_buf)
    /\ resLeft > 0
    /\ write_buf' = Encode(encoder, write_buf)
    /\ resLeft' = resLeft - 1
    /\ Restart
    /\ hist' = [hist EXCEPT !.readyOk = FALSE]
    /\ UNCHANGED <<pc, result, conn, read_buf, wire, body_handle, chan, encoder, cur,
                   env, shut, timer, alt>>

\* A faulty response_handler that does not except the upgrade decoder.
EndCtypeAnyCoding(handle, ch, ct) == IF handle.some /\ ~ch.eof THEN "Close" ELSE ct

\* A faulty response_handler that sets the connection type anew at the end of every
\* stream, keep-alive when the request body was read to its end.
EndCtypeAnew(handle, ch, ct) ==
    IF handle.some /\ ~ch.eof /\ handle.coding # "Upgrade" THEN "Close" ELSE "KeepAlive"

\* The connection type response_handler leaves when the stream ends: Close when the
\* request body was not read to its end (and is no upgrade).
EndCtype(handle, ch, ct) ==
    IF handle.some /\ ~ch.eof /\ handle.coding # "Upgrade" THEN "Close" ELSE ct

\* A faulty response_handler that returns at the end of the stream without
\* encode_eof.
StreamEndUnterminated ==
    /\ pc = "respond" /\ turn = "A"
    /\ PollsBody(write_buf)
    /\ resLeft = 0
    /\ ctype' = EndCtype(body_handle, chan, ctype)
    /\ body_handle' = NoHandle
    /\ chan' = NoChan
    /\ encoder' = "Eof"
    /\ pc' = AfterResponse(ctype')
    /\ bpc' = "none"
    /\ hist' = [NoHist EXCEPT !.forced = (ctype' # ctype)]
    /\ UNCHANGED <<result, turn, expect, read_buf, wire, write_buf, resLeft, cur, env,
                   shut, timer, alt>>

\* The stream ends: encoder.encode_eof, and response_handler returns Ok.
StreamEnd ==
    /\ pc = "respond" /\ turn = "A"
    /\ PollsBody(write_buf)
    /\ resLeft = 0
    /\ ctype' = EndCtype(body_handle, chan, ctype)
    /\ body_handle' = NoHandle
    /\ chan' = NoChan
    /\ write_buf' = EncodeEof(encoder, write_buf)
    /\ encoder' = "Eof"
    /\ pc' = AfterResponse(ctype')
    /\ bpc' = "none"
    /\ hist' = [NoHist EXCEPT !.forced = (ctype' # ctype)]
    /\ UNCHANGED <<result, turn, expect, read_buf, wire, resLeft, cur, env, shut, timer, alt>>

\* The stream yields an error: response_handler returns Error::Body.
StreamError ==
    /\ pc = "respond" /\ turn = "A"
    /\ PollsBody(write_buf)
    /\ Return("Body")
    /\ hist' = [hist EXCEPT !.readyOk = FALSE]

\* ---------------------------------------------------------------------------
\* response_body_handler (arm B of response_handler's select)
\* ---------------------------------------------------------------------------
InResBody(at) == pc = "respond" /\ bpc = at

\* A faulty response_body_handler that feeds the error and keeps the handle.
GiveUpBodyKeepsHandle ==
    /\ body_handle' = body_handle
    /\ chan' = Gone("err")
    /\ Restart

\* response_body_handler gives the request body up: feed_error, handle = None; it
\* returns Ok and the loop of response_handler goes on.
GiveUpBody ==
    /\ body_handle' = NoHandle
    /\ chan' = Gone("err")
    /\ Restart

\* A faulty BufferedIo::ready that waits for READABLE without handle.ready.
ReadyFirstUngated(buf) == "rd"

\* A faulty BufferedIo::ready that takes the write buffer for empty.
ReadyFirstReadOnly(buf) == "rdy0"

\* BufferedIo::ready: the first await, by whether the write buffer has pending bytes.
ReadyFirst(buf) == IF WantWrite(buf) THEN "sel" ELSE "rdy0"

\* A faulty write_or_pending that is pending whatever the write buffer holds.
WriteOrPendingIdle(buf) == "pending"

\* write_or_pending: write() with pending bytes, else pending for ever.
WriteOrPending(buf) == IF WantWrite(buf) THEN "wop" ELSE "pending"

\* The first poll of response_body_handler, up to its first await.
ResBodyStart ==
    /\ InResBody("start")
    /\ IF body_handle.some
       THEN LET d == HandleDecode(body_handle, read_buf, 0)
            IN CASE d.state = "Err" -> Return("Io") /\ UNCHANGED hist
                 [] d.state = "Eof" ->
                      /\ read_buf' = d.buf
                      /\ body_handle' = NoHandle
                      /\ chan' = Gone("eof")
                      /\ Restart
                      /\ UNCHANGED <<pc, result, conn, out, encoder, resLeft, cur, env,
                                     shut, timer, alt, hist>>
                 [] OTHER ->
                      /\ read_buf' = d.buf
                      /\ body_handle' = d.dec
                      /\ chan' = Fed(chan, d)
                      /\ bpc' = ReadyFirst(write_buf)
                      /\ UNCHANGED <<pc, result, conn, out, encoder, resLeft, cur, env,
                                     shut, timer, alt, hist>>
                      /\ turn' = Poll(bpc', chan', write_buf')
       ELSE /\ bpc' = WriteOrPending(write_buf)
            /\ UNCHANGED <<pc, result, conn, read_buf, out, req, env, shut, timer, alt, hist>>
            /\ turn' = Poll(bpc', chan', write_buf')

\* A faulty response_body_handler that returns the error of BufferedIo::ready.
ReadyFailedAborts ==
    /\ Return("Io")
    /\ UNCHANGED hist

\* handle.ready inside BufferedIo::ready failed: the receiver is gone.
ReadyFailed ==
    /\ ctype' = ReadyErrCtype(ctype)
    /\ GiveUpBody
    /\ UNCHANGED <<pc, result, expect, read_buf, out, encoder, resLeft, cur, env, shut, timer, alt,
                   hist>>

\* A faulty BufferedIo::ready that goes on to the await `next` without handle.ready
\* having resolved.
ReadyOkUnawaited(next) ==
    /\ bpc' = next
    /\ hist' = [hist EXCEPT !.readyOk = TRUE]
    /\ UNCHANGED <<pc, result, conn, read_buf, out, req, env, shut, timer, alt>>
    /\ turn' = Poll(bpc', chan', write_buf')

\* handle.ready inside BufferedIo::ready resolved Ok: on to the await `next`.
ReadyOk(next) ==
    /\ chan.q = 0
    /\ bpc' = next
    /\ hist' = [hist EXCEPT !.readyOk = TRUE]
    /\ UNCHANGED <<pc, result, conn, read_buf, out, req, env, shut, timer, alt>>
    /\ turn' = Poll(bpc', chan', write_buf')

\* BufferedIo::ready with an empty write buffer: handle.ready resolves.
ResBodyReady ==
    /\ InResBody("rdy0")
    /\ IF chan.dropped THEN ReadyFailed ELSE ReadyOk("rd")

\* BufferedIo::ready with pending bytes: handle.ready wins the race against WRITABLE.
ResBodySelect ==
    /\ InResBody("sel")
    /\ IF chan.dropped THEN ReadyFailed ELSE ReadyOk("rw")

\* BufferedIo::ready with pending bytes: WRITABLE wins the race, and try_write runs.
ResBodySelectWrite ==
    /\ InResBody("sel")
    /\ ~chan.dropped /\ chan.q > 0
    /\ \E f \in TryWrite(write_buf, wire) :
          write_buf' = f.buf /\ wire' = f.wire
    /\ Restart
    /\ UNCHANGED <<pc, result, conn, read_buf, req, env, shut, timer, alt, hist>>

\* BufferedIo::ready with an empty write buffer: READABLE resolves, try_read runs.
ResBodyReadable ==
    /\ InResBody("rd")
    /\ \E r \in TryRead(read_buf, peer) :
          /\ read_buf' = r.buf
          /\ peer' = r.peer
    /\ Restart
    /\ hist' = BodyRead(hist)
    /\ UNCHANGED <<pc, result, conn, out, req, nreq, shut, timer, alt>>

\* BufferedIo::ready with pending bytes, after handle.ready won: READABLE | WRITABLE
\* resolves, and try_read and try_write run as the readiness says.
ResBodyReadWrite ==
    /\ InResBody("rw")
    /\ \E readable \in BOOLEAN, writable \in BOOLEAN :
          /\ readable \/ writable
          /\ IF readable
             THEN /\ \E r \in TryRead(read_buf, peer) :
                       /\ read_buf' = r.buf
                       /\ peer' = r.peer
                  /\ hist' = BodyRead(hist)
             ELSE /\ UNCHANGED <<read_buf, peer>>
                  /\ hist' = [hist EXCEPT !.readyOk = FALSE]
          /\ IF writable
             THEN \E f \in TryWrite(write_buf, wire) :
                     write_buf' = f.buf /\ wire' = f.wire
             ELSE UNCHANGED out
    /\ Restart
    /\ UNCHANGED <<pc, result, conn, req, nreq, shut, timer, alt>>

\* write_or_pending with pending bytes: write().
ResBodyWrite ==
    /\ InResBody("wop")
    /\ \E f \in TryWrite(write_buf, wire) :
          write_buf' = f.buf /\ wire' = f.wire
    /\ Restart
    /\ UNCHANGED <<pc, result, conn, read_buf, req, env, shut, timer, alt, hist>>

\* ---------------------------------------------------------------------------
\* Transport failures
\* ---------------------------------------------------------------------------
\* The dispatcher is in try_read.
AtTryRead ==
    \/ pc = "read"
    \/ InReqBody("read")
    \/ InResBody("rd")
    \/ InResBody("rw")

\* The dispatcher is in a transport operation whose Err it propagates with `?`:
\* read, write, drain_write, try_read, try_write, shutdown.
AtFatalIo ==
    \/ AtTryRead
    \/ pc = "shutdown"
    \/ pc = "drain" /\ WantWrite(write_buf)
    \/ InReqBody("cont_drain") /\ WantWrite(write_buf)
    \/ InResBody("wop")
    \/ InResBody("sel") /\ ~chan.dropped /\ chan.q > 0

\* try_read reads zero bytes: the peer closed and everything it sent was read.
PeerEof ==
    /\ AtTryRead
    /\ peer = << >>
    /\ Return(FromIoError("UnexpectedEof"))
    /\ hist' = [hist EXCEPT !.readyOk = FALSE, !.eof = TRUE]

\* A transport operation fails with an error other than would-block.
IoError ==
    /\ AtFatalIo
    /\ Return(FromIoError("Other"))
    /\ hist' = [hist EXCEPT !.readyOk = FALSE, !.ioErr = TRUE]

\* What response_body_handler does with an Err of BufferedIo::ready that is not the
\* receiver's: TRUE when it is taken for one (feed_error, handle = None, go on).
SwallowsReadyErr == TRUE

\* Inside BufferedIo::ready the wait for the transport's readiness returns Err.
ReadyIoError ==
    /\ \/ InResBody("rd")
       \/ InResBody("rw")
       \/ InResBody("sel") /\ ~chan.dropped /\ chan.q > 0
    /\ hist' = [hist EXCEPT !.readyOk = FALSE, !.ioErr = TRUE]
    /\ IF SwallowsReadyErr
       THEN /\ GiveUpBody
            /\ UNCHANGED <<pc, result, conn, read_buf, out, encoder, resLeft, cur, env, shut, timer, alt>>
       ELSE Return("Io")

\* ---------------------------------------------------------------------------
\* Specification
\* ---------------------------------------------------------------------------
Next ==
    \/ PeerSend \/ PeerSendBad
    \/ Gate \/ Shutdown \/ Read \/ KeepAliveExpire
    \/ DecodeHead \/ Drain
    \/ SvcPollBody \/ SvcDropBody \/ SvcReturn \/ SvcError
    \/ ReqBodyStart \/ ReqBodyWaitPoll \/ ReqBodyDrain \/ ReqBodyReady \/ ReqBodyRead
    \/ StreamChunk \/ StreamEnd \/ StreamError
    \/ ResBodyStart \/ ResBodyReady \/ ResBodySelect \/ ResBodySelectWrite
    \/ ResBodyReadable \/ ResBodyReadWrite \/ ResBodyWrite
    \/ PeerEof \/ IoError \/ ReadyIoError

Spec == Init /\ [][Next]_vars

\* The steps of a connection on which nothing fails: no transport error, no eof of
\* the peer, no error of the service or of the response-body stream.
NextLive ==
    \/ PeerSendLive \/ PeerSendBadLive
    \/ Gate \/ Shutdown \/ Read \/ KeepAliveExpire
    \/ DecodeHead \/ Drain
    \/ SvcPollBody \/ SvcDropBody \/ SvcReturn
    \/ ReqBodyStart \/ ReqBodyWaitPoll \/ ReqBodyDrain \/ ReqBodyReady \/ ReqBodyRead
    \/ StreamChunk \/ StreamEnd
    \/ ResBodyStart \/ ResBodyReady \/ ResBodySelect \/ ResBodySelectWrite
    \/ ResBodyReadable \/ ResBodyReadWrite \/ ResBodyWrite

\* A write of response_body_handler on which the transport accepts something.
ResBodyFlush ==
    /\ ResBodySelectWrite \/ ResBodyReadWrite \/ ResBodyWrite
    /\ Len(write_buf') < Len(write_buf)

\* What the executor and the environment grant while a response is streamed: arm B
\* is polled on while it is not pending (Select::poll), the stream yields its next
\* item or its end when it is polled often enough, and the transport accepts bytes
\* when it is awaited often enough with bytes pending.
RespondFairness ==
    /\ WF_vars(ResBodyStart) /\ WF_vars(ResBodyReady) /\ WF_vars(ResBodySelect)
    /\ SF_vars(StreamChunk) /\ SF_vars(StreamEnd)
    /\ SF_vars(ResBodyFlush)

SpecLive == Init /\ [][NextLive]_vars /\ RespondFairness

\* A write of drain_write on which the transport accepts something, and the return
\* of drain_write once nothing is left.
DrainAccepts == Drain /\ (pc' # pc \/ Len(write_buf') < Len(write_buf))

\* The same of the drain_write that follows 100 Continue.
ReqBodyDrainAccepts ==
    ReqBodyDrain /\ (bpc' # bpc \/ Len(write_buf') < Len(write_buf))

\* A transport that becomes writable whenever drain_write awaits it and accepts at
\* least one byte of each write.
DrainFairness == WF_vars(DrainAccepts) /\ WF_vars(ReqBodyDrainAccepts)

\* The steps of a connection with the peer of NextLive, failures included.
NextTimer ==
    \/ NextLive
    \/ SvcError \/ StreamError
    \/ PeerEof \/ IoError \/ ReadyIoError

\* The connection whose transport takes what drain_write writes, when it does not
\* fail.
SpecDrain == Init /\ [][NextTimer]_vars /\ DrainFairness

\* A step of the dispatcher that needs nothing but a poll and a writable transport:
\* a write of drain_write that gets something accepted, the gate of run, and arm B
\* of either select running on to its next pending await.  No two of them are
\* enabled in the same state.
DispatcherStep ==
    \/ DrainAccepts \/ ReqBodyDrainAccepts \/ Gate
    \/ ResBodyStart \/ ResBodyReady \/ ResBodySelect
    \/ ReqBodyStart \/ ReqBodyWaitPoll \/ ReqBodyReady

\* A transport that stays writable, and a dispatcher that is polled.
WritableFairness == WF_vars(DispatcherStep) /\ SF_vars(ResBodyFlush)

\* A service that returns its response and a response-body stream that yields and
\* ends, when they are polled.
ServiceFairness == SF_vars(SvcReturn \/ StreamChunk \/ StreamEnd)

\* The connection whose transport stays writable and whose service answers.
SpecWritable == Init /\ [][NextTimer]_vars /\ WritableFairness /\ ServiceFairness

\* The connection whose timer the caller armed with a deadline of its own.
SpecTimer == InitTimer /\ [][NextTimer]_vars

TypeOK ==
    /\ pc \in {"gate", "read", "decode", "serve", "respond", "drain", "shutdown", "done"}
    /\ turn \in {"A", "B"}
    /\ ctype \in {"Init", "KeepAlive", "Close"}
    /\ cur \in 0..MaxReq

\* ---------------------------------------------------------------------------
\* Properties
\* ---------------------------------------------------------------------------
\* Everything the dispatcher has produced, in the order it was enqueued.
Output == wire \o write_buf

\* The 100 Continue of request n is in `seq`.
ContIn(seq, n) == \E i \in 1..Len(seq) : seq[i] = [req |-> n, k |-> "cont"]

\* The place of a unit within its response.
Rank(k) ==
    CASE k = "cont" -> 0
      [] k = "body" -> 2
      [] k = "eof"  -> 3
      [] OTHER      -> 1

\* Unit a comes no later than unit b: it answers an earlier request, or the same one
\* and has no later place in the response.
NoLater(a, b) ==
    \/ a.req < b.req
    \/ a.req = b.req /\ Rank(a.k) <= Rank(b.k)

\* `seq` holds the responses one after the other, each as 100 Continue, head, body,
\* terminator: every unit comes no later than the next (and so than all that follow).
InOrder(seq) == \A i \in 1..(Len(seq) - 1) : NoLater(seq[i], seq[i + 1])

\* C1, as claimed: whenever decode_head is invoked for a request that follows one
\* already answered, the write buffer is empty (response N was flushed to the last
\* byte).
C1_FlushedBeforeNextDecode ==
    (pc = "decode" /\ cur >= 1 /\ DecodeHeadResult(read_buf).res = "Ok")
        => write_buf = << >>

\* C1, amended: response N is flushed to the last byte before the dispatcher goes
\* back to the top of its loop, that is before it waits for the transport to be
\* readable again or shuts it down (a request already in the read buffer is decoded
\* with response N still in the write buffer).
C1_FlushedBeforeNextRead ==
    pc \in {"gate", "read", "shutdown"} => write_buf = << >>

\* A response is on the transport and the dispatcher waits for the next request.
C1_Witness == pc = "read" /\ cur >= 1 /\ wire # << >> /\ write_buf = << >>

\* C2: what is handed to the transport, followed by what is still to be handed over,
\* is response A whole (head, body, terminator) and then response B, for any requests
\* A before B: no unit of B precedes a unit of A.
C2_ResponsesInOrder == InOrder(Output)

\* The responses to two requests are on the transport.
C2_Witness ==
    \E i, j \in 1..Len(wire) : wire[i].req = 1 /\ wire[j].req = 2 /\ wire[j].k = "head"

\* C3, as claimed: a chunk is fed only once the service has taken the one before, so
\* the channel never holds more than one chunk.
C3_OneChunkInFlight == chan.q <= 1

\* C3, amended: every read from the transport made for the request body follows a
\* sender.ready() that resolved Ok after the read before it (a single decode feeds
\* every chunk it finds in the read buffer, and response_body_handler decodes before
\* it awaits readiness).
C3_ReadsGated == ~hist.ungated

\* sender.ready() resolved Ok and the read it gates has bytes to take.
C3_Witness ==
    /\ InReqBody("read") \/ InResBody("rd") \/ InResBody("rw")
    /\ hist.readyOk
    /\ peer # << >>
    /\ chan.q = 0

\* C4, as claimed (the half that fails): when the request has Expect: 100-continue
\* and the service has polled its body, be it only through the response-body stream,
\* 100 Continue has been emitted.
C4_ContinueIffRead ==
    (pc = "respond" /\ expect /\ chan.polled) => ContIn(Output, cur)

\* A step that encodes 100 Continue: it appends it to the write buffer.
EmitsContinue ==
    /\ Len(write_buf') = Len(write_buf) + 1
    /\ write_buf'[Len(write_buf')].k = "cont"

\* The response head of the request never precedes its 100 Continue.
ContinueBeforeHead ==
    \A j \in 1..Len(Output) :
        Output[j].k = "cont" =>
            \A i \in 1..(j - 1) :
                ~(Output[i].req = Output[j].req /\ Output[i].k = "head")

\* C4, amended: 100 Continue is emitted only for a request with a body and
\* Expect: 100-continue whose body the service polls before it returns its
\* response, and then before the response head; a body polled only through the
\* response-body stream gets none.
C4_ContinueOnlyIfReadWhileServing ==
    /\ [][EmitsContinue =>
             pc = "serve" /\ expect /\ body_handle.some /\ chan.polled /\ ~chan.dropped]_vars
    /\ [](ContIn(Output, cur) => expect)
    /\ []ContinueBeforeHead

\* 100 Continue and then the response head are on the transport.
C4_Witness ==
    /\ pc = "respond"
    /\ ContIn(wire, cur)
    /\ \E i \in 1..Len(wire) : wire[i] = [req |-> cur, k |-> "head"]

\* C5, as claimed: once 100 Continue is emitted, it has left the write buffer
\* whenever the dispatcher awaits the sender's readiness or has decoded body chunks
\* of the request.
C5_ContinueDrainedBeforeBody ==
    (Serving /\ ContIn(Output, cur) /\ bpc \in {"ready", "read", "rdy0", "sel", "rd", "rw"})
        => ~ContIn(write_buf, cur)

\* C5, amended: 100 Continue is enqueued before the response head, and the write
\* buffer is drained before _request_body_handler first awaits the sender's
\* readiness or decodes a body chunk (when the service returns its response while
\* that drain is pending, response_body_handler decodes with 100 Continue still in
\* the write buffer).
C5_ContinueDrainedWhileServing ==
    /\ (pc = "serve" /\ ContIn(Output, cur) /\ bpc \in {"ready", "read"})
           => write_buf = << >>
    /\ ContinueBeforeHead

\* 100 Continue is on the transport and _request_body_handler reads the body.
C5_Witness == InReqBody("read") /\ ContIn(wire, cur) /\ write_buf = << >>

\* response_handler returns Ok: the response is complete.
ResponseCompletes == pc = "respond" /\ pc' \in {"decode", "drain"}

\* C6: after a response that completes with a connection type other than Close the
\* dispatcher goes on to decode_head (and from there to the next read); after one
\* that completes with Close it decodes no more: it drains the write buffer, and with
\* the buffer empty shuts the transport down, unless a transport error ends it.
C6_KeepAliveOrClose ==
    /\ [][ResponseCompletes =>
             pc' = (IF ctype' = "Close" THEN "drain" ELSE "decode")]_vars
    /\ [][(pc = "decode" /\ ctype # "Close") =>
             pc' \in {"serve", "drain", "decode"}]_vars
    /\ [][(ctype = "Close" /\ pc = "drain") =>
             /\ pc' \in {"drain", "gate", "done"}
             /\ pc' = "gate" => write_buf = << >>
             /\ pc' = "done" => result' = "Io"]_vars
    /\ [][(ctype = "Close" /\ pc = "gate" /\ pc' # "gate") =>
             pc' = "shutdown" /\ shut']_vars
    /\ [](shut => ctype = "Close" /\ write_buf = << >> /\ pc \in {"shutdown", "done"})

\* A first request was answered keep-alive, a second with Close, and the transport
\* was shut down with both responses flushed.
C6_Witness ==
    /\ pc = "done" /\ result = "Ok" /\ shut
    /\ cur = 2
    /\ \E i \in 1..Len(wire) : wire[i] = [req |-> 2, k |-> "head"]

\* C7: once the connection type is Close it stays Close, and no step leads to
\* decode_head again, whoever set it (the request head, request_error, a failed
\* RequestBodyHandle::ready, response_handler).
C7_NoDecodeAfterClose ==
    [][ctype = "Close" => (ctype' = "Close" /\ pc' # "decode")]_vars

\* Close was set while a request was served and, its response complete, a request
\* that is already in the read buffer is left undecoded.
C7_Witness ==
    /\ pc = "gate" /\ ctype = "Close" /\ cur >= 1
    /\ DecodeHeadResult(read_buf).res = "Ok"

\* C8: when the response-body stream ends, response_handler sets Close if the
\* request-body handle is present, its sender not at eof and its decoder not
\* Upgrade, and else leaves the connection type as it is; the terminator is encoded
\* in the same step, after it.
C8_EndOfStreamCtype ==
    [][ResponseCompletes =>
          /\ ctype' = (IF body_handle.some /\ ~chan.eof /\ body_handle.coding # "Upgrade"
                       THEN "Close" ELSE ctype)
          /\ write_buf' \in {write_buf, Append(write_buf, [req |-> cur, k |-> "eof"])}]_vars

\* response_handler changed a keep-alive connection to Close at the end of the
\* stream.
C8_Witness == hist.forced /\ ctype = "Close" /\ pc = "drain"

\* The dispatcher found the receiver dropped: its sender is gone without feed_eof,
\* and not for a transport error.
DropObserved ==
    /\ Serving
    /\ chan = Gone("drop") \/ (chan = Gone("err") /\ ~hist.ioErr)

ReadyFails ==
    /\ bpc \in {"ready", "rdy0", "sel"}
    /\ chan.dropped
    /\ chan' \in {Gone("drop"), Gone("err")}

\* handle.wait_for_poll observes the drop.
WaitForPollFails ==
    /\ bpc = "wait_poll"
    /\ chan.dropped
    /\ chan' = Gone("drop")

C10_IoErrorIsFatal == hist.ioErr => (pc = "done" /\ result = "Io")

\* The canned response head of request_error is the last thing enqueued.
CannedLast(seq) ==
    Len(seq) > 0 /\ seq[Len(seq)].k \in {"too_large", "bad_request"}

\* decode_head returns a Parse error on the read buffer.
ParseError == pc = "decode" /\ DecodeHeadResult(read_buf).res \in {"TooLarge", "Bad"}

\* C11: when decode_head returns a Parse error the dispatcher calls no service (no
\* request is counted as decoded and run does not go on to the service call), sets
\* the connection type to Close and enqueues the canned head (header-too-large for
\* HeaderTooLarge, 400 for any other Parse error); from then on it decodes nothing,
\* enqueues nothing, only drains, and the transport is shut down only with the canned
\* head flushed.
C11_ParseErrorRecovery ==
    /\ [][(ParseError /\ pc' # pc) =>
             /\ pc' = "drain" /\ ctype' = "Close" /\ cur' = cur
             /\ write_buf' = Append(write_buf,
                    [req |-> cur + 1,
                     k |-> IF DecodeHeadResult(read_buf).res = "TooLarge"
                           THEN "too_large" ELSE "bad_request"])]_vars
    /\ [](CannedLast(Output) =>
             /\ ctype = "Close"
             /\ pc \in {"drain", "gate", "shutdown", "done"}
             /\ shut => CannedLast(wire) /\ write_buf = << >>)
    /\ [][CannedLast(Output) => Output' = Output]_vars

\* A header-too-large head was answered with the canned response, which was flushed
\* before the transport was shut down.
C11_Witness ==
    /\ pc = "done" /\ result = "Ok" /\ shut
    /\ CannedLast(wire) /\ wire[Len(wire)].k = "too_large"
    /\ write_buf = << >>

C13_WriteBufBounded == Len(write_buf) <= WRITE_BUF_LIMIT + 1

\* The step enqueues a response-body chunk or the eof terminator.
EnqueuesBody ==
    /\ Len(write_buf') = Len(write_buf) + 1
    /\ write_buf'[Len(write_buf')].k \in {"body", "eof"}

\* C13, as the code has it: a body chunk or terminator is enqueued only onto a write
\* buffer below WRITE_BUF_LIMIT; heads and 100 Continue are enqueued whatever the
\* buffer holds, so on top of that the buffer holds at most the 100 Continue and the
\* head of one more request: below the limit, plus one chunk or terminator, plus one
\* 100 Continue, plus one head.
C13_BodyEnqueuedBelowLimit ==
    /\ [][EnqueuesBody => Len(write_buf) < WRITE_BUF_LIMIT]_vars
    /\ [](Len(write_buf) <= (WRITE_BUF_LIMIT - 1) + 1 + 1 + 1)

\* The response of a pipelined request is being streamed with the write buffer past
\* WRITE_BUF_LIMIT plus one chunk, no chunk of it polled yet.
C13_Witness ==
    /\ pc = "respond" /\ cur >= 2
    /\ Len(write_buf) = WRITE_BUF_LIMIT + 2
    /\ write_buf[Len(write_buf)] = Item("head")

\* C14: on a connection where nothing fails, where the stream yields when polled
\* and the transport accepts bytes when awaited, every response_handler that was
\* entered returns, and it returns having called encode_eof, whatever backpressure
\* engaged on the way.
C14_ResponseHandlerReturns ==
    /\ (pc = "respond") ~> (pc \in {"decode", "drain"})
    /\ [][ResponseCompletes =>
             /\ encoder' = "Eof"
             /\ write_buf' = EncodeEof(encoder, write_buf)]_vars

\* A chunked response is streamed with its end still to be polled, the write buffer
\* at backpressure, so that try_poll_body is pending, and the request body unfinished.
C14_Witness ==
    /\ pc = "respond" /\ resLeft = 0 /\ encoder = "Chunked"
    /\ WriteBackpressure(write_buf)
    /\ body_handle.some

\* C15: when no byte arrived on the connection and the keep-alive timer fired while
\* the dispatcher awaited the first read, run returns Ok (KeepAliveExpire is
\* swallowed) and nothing was written to the transport or left to write.
C15_IdleExpiryIsOk ==
    (pc = "done" /\ result = "KeepAliveExpire" /\ nreq = 0) =>
        /\ Surfaced(result) = "Ok"
        /\ wire = << >> /\ write_buf = << >>
        /\ cur = 0

\* The timer fired on a connection the peer sent nothing on.
C15_Witness ==
    pc = "done" /\ result = "KeepAliveExpire" /\ nreq = 0 /\ ~shut

\* C16: a zero-length read, whether it comes while the dispatcher awaits the first
\* bytes of a request or in the middle of one, ends the dispatcher with Closed, which
\* run gives its caller as Ok; the transport is not shut down on that path.
C16_EofIsOk ==
    hist.eof =>
        /\ pc = "done" /\ result = "Closed"
        /\ Surfaced(result) = "Ok"

\* The peer closed in the middle of a request: a head was decoded and bytes of its
\* response were still to be written.
C16_Witness ==
    /\ hist.eof /\ pc = "done"
    /\ cur >= 1 /\ write_buf # << >> /\ write_buf[Len(write_buf)].req = cur

\* C17, as claimed: when the keep-alive timer fires with a request in progress (here:
\* between the reads of a head that has arrived in part) the dispatcher returns Ok
\* and has forced the connection type to Close.
C17_ExpiryMidRequestForcesClose ==
    [][(pc = "read" /\ read_buf # << >> /\ pc' = "done" /\ result' = "KeepAliveExpire") =>
          /\ Surfaced(result') = "Ok"
          /\ ctype' = "Close"]_vars

\* The response-body stream yields Err to response_handler.
StreamFails == pc = "respond" /\ result' = "Body"

ServiceFails == pc = "serve" /\ result' = "Service"

\* C19: when service.call returns Err the dispatcher returns Error::Service, which run
\* gives its caller; no response head was encoded for that request (nothing at all
\* is encoded on the way out), and no request is decoded afterwards.
C19_ServiceErrorIsFatal ==
    /\ [][ServiceFails =>
             /\ pc' = "done" /\ Surfaced(result') = "Service"
             /\ Output' = Output /\ cur' = cur]_vars
    /\ [](result = "Service" =>
             /\ pc = "done"
             /\ \A i \in 1..Len(Output) : Output[i] # Item("head"))
    /\ [][result = "Service" => (pc' = "done" /\ cur' = cur /\ Output' = Output)]_vars

\* The service failed on the second request of a connection, after the first was
\* answered.
C19_Witness ==
    /\ pc = "done" /\ result = "Service" /\ cur = 2
    /\ \E i \in 1..Len(Output) : Output[i] = [req |-> 1, k |-> "head"]

\* C20: BufferedIo::shutdown is invoked only by the pre-read gate and only with the
\* connection type Close; a return of the dispatcher from anywhere else (keep-alive
\* expiry, eof of the peer, an error of the transport, the service or the stream)
\* leaves the transport without a shutdown.
C20_ShutdownOnlyOnClose ==
    /\ [][(shut' /\ ~shut) =>
             (pc = "gate" /\ ctype = "Close" /\ pc' = "shutdown")]_vars
    /\ [](pc = "shutdown" => shut /\ ctype = "Close")
    /\ [][(pc' = "done" /\ pc \notin {"shutdown", "done"}) => ~shut']_vars
    /\ [](result \in {"KeepAliveExpire", "Closed", "Service", "Body"} => ~shut)

\* The gate found Close after one request and shutdown is under way.
C20_Witness ==
    /\ pc = "shutdown" /\ shut /\ ctype = "Close"
    /\ cur = 1 /\ write_buf = << >>

\* A unit of a request body with Content-Length or chunked framing, as the peer
\* sent it (what follows an upgrade request is not counted).
BodyUnit(u) == u.k \in {"data", "chunk", "last"}

\* C21, as claimed: decode_head never finds bytes of a request body at the front of
\* the read buffer, that is, the body of the request before was decoded to its end
\* (or there was none) on every path that dropped the body handle.
C21_NoBodyBytesAsHead ==
    pc = "decode" => (read_buf = << >> \/ ~BodyUnit(read_buf[1]))

\* C22, as claimed: while a response is streamed no read takes bytes from the
\* transport with bytes pending in the write buffer.
C22_NoReadWhileWritePending ==
    [][(pc = "respond" /\ Len(read_buf') > Len(read_buf)) => write_buf = << >>]_vars

\* C22, as the code has it: while a response is streamed the dispatcher never waits
\* for the sender's readiness and then READABLE alone with bytes pending in the write
\* buffer; with bytes pending, WRITABLE is part of every wait (and a read is made
\* only from the wait for READABLE | WRITABLE).
C22_NoReadOnlyWaitWhileWritePending ==
    (InResBody("rdy0") \/ InResBody("rd")) => write_buf = << >>

\* With bytes pending, the sender ready and bytes of the peer to read, BufferedIo::ready
\* waits for READABLE | WRITABLE: try_read will run before the write.
C22_Witness ==
    /\ InResBody("rw") /\ hist.readyOk
    /\ write_buf # << >> /\ peer # << >>

\* C23: BufferedIo::ready comes to await transport readability only from handle.ready
\* resolved Ok (sender live, previous chunk taken): READABLE after it with an empty
\* write buffer, READABLE | WRITABLE after it won the race against WRITABLE with
\* bytes pending. When WRITABLE wins the race only the write is made, nothing is
\* read. When handle.ready fails ready returns Err: nothing is read or written and
\* the handle is given up.
C23_ReadableOnlyAfterSenderReady ==
    /\ [][(pc = "respond" /\ pc' = "respond" /\ bpc' \in {"rd", "rw"} /\ bpc' # bpc) =>
             /\ bpc = (IF bpc' = "rd" THEN "rdy0" ELSE "sel")
             /\ (bpc' = "rd") = (write_buf = << >>)
             /\ ~chan.dropped /\ chan.q = 0]_vars
    /\ [](InResBody("rd") \/ InResBody("rw") => hist.readyOk)
    /\ [][(InResBody("sel") /\ pc' = "respond" /\ out' # out) =>
             (read_buf' = read_buf /\ peer' = peer /\ bpc' = "start")]_vars
    /\ [][(/\ pc = "respond" /\ bpc \in {"rdy0", "sel"} /\ chan.dropped
            /\ pc' = "respond" /\ resLeft' = resLeft /\ bpc' # bpc) =>
             /\ bpc' = "start" /\ ~body_handle'.some
             /\ read_buf' = read_buf /\ out' = out]_vars

\* With an empty write buffer the sender's readiness resolved Ok after the service
\* took a chunk, and ready awaits READABLE.
C23_Witness ==
    /\ InResBody("rd") /\ hist.readyOk
    /\ write_buf = << >> /\ chan.polled /\ chan.q = 0

\* The response-body stream was polled and gave a chunk, its end or an error.
StreamPolled ==
    /\ pc = "respond"
    /\ \/ pc' = "respond" /\ resLeft' # resLeft
       \/ pc' \in {"decode", "drain"}
       \/ result' = "Body"

\* C24: the response-body stream gives response_handler a chunk, its end or an
\* error only with the write buffer not in backpressure, and the write buffer an
\* iteration of response_handler started with is the one its try_poll_body sees:
\* whatever changes the write buffer starts a new iteration.
C24_NoPollUnderBackpressure ==
    /\ [][StreamPolled => ~WriteBackpressure(write_buf)]_vars
    /\ [][(pc = "respond" /\ pc' = "respond" /\ write_buf' # write_buf) =>
             (bpc' = "start" /\ turn' = "A")]_vars

\* The stream has a chunk to give, the write buffer is in backpressure and arm B,
\* without a body handle, is in write_or_pending.
C24_Witness ==
    /\ pc = "respond" /\ resLeft > 0
    /\ WriteBackpressure(write_buf)
    /\ ~body_handle.some /\ bpc = "wop"

\* C25, as claimed, for what comes after the response bytes: the opportunistic write
\* has priority over the request-body feed, so that with bytes pending the write
\* can be taken whenever BufferedIo::ready races it against the sender's readiness.
C25_WriteBeforeBodyFeed == InResBody("sel") => ENABLED ResBodySelectWrite

\* C25, as the code has it: in both selects arm A (the service call, the
\* response-body stream) is polled first in every poll: whenever arm B is pending at
\* an await the next poll starts with arm A, a stream that has an item and a write
\* buffer without backpressure can then be taken whatever arm B waits for, and
\* taking it cancels arm B.
C25_ResponseBytesFirst ==
    /\ [](Serving /\ Parked(bpc, chan, write_buf) => turn = "A")
    /\ [](pc = "respond" /\ turn = "A" /\ PollsBody(write_buf) =>
             ENABLED (StreamChunk \/ StreamEnd))
    /\ [][(pc = "respond" /\ pc' = "respond" /\ resLeft' # resLeft) =>
             (bpc' = "start" /\ turn' = "A")]_vars

\* With bytes pending and the sender not ready, the transport write of arm B and a
\* chunk of the stream can both be taken.
C25_Witness ==
    /\ InResBody("sel") /\ chan.q > 0 /\ ~chan.dropped
    /\ turn = "A" /\ resLeft > 0 /\ PollsBody(write_buf)

\* feed_eof or feed_error has been called on the sender of the current request.
SenderClosed(ch) == ch.eof \/ ch.err

\* C26: the step that feeds eof or an error to a request-body sender sets the body
\* handle to None, in request_body_handler and in response_body_handler alike;
\* with eof or an error fed there is no handle, and nothing is fed to that sender
\* again: the channel stays as it is until the response is complete or the
\* dispatcher returns.
C26_NoFeedAfterEof ==
    /\ [](SenderClosed(chan) => ~body_handle.some)
    /\ [][(~SenderClosed(chan) /\ SenderClosed(chan')) =>
             (body_handle.some /\ ~body_handle'.some)]_vars
    /\ [][SenderClosed(chan) => (chan' = chan \/ chan' = NoChan)]_vars

\* The request body was fed to its end while the response is streamed, with chunks
\* of the response still to come.
C26_Witness ==
    /\ pc = "respond" /\ resLeft > 0
    /\ chan = Gone("eof") /\ ~body_handle.some

\* C27: request_body_handler never resolves with a response. Once the request body
\* reached eof or its receiver was dropped the handle is cleared and the handler is
\* pending for good; request_handler is left only with the service's response, with
\* the service's error, or with the transport or protocol error of the body feed.
C27_BodyArmNeverResolvesOk ==
    /\ [][(pc = "serve" /\ pc' = "serve" /\ body_handle.some /\ ~body_handle'.some) =>
             bpc' = "pending"]_vars
    /\ [](InReqBody("pending") => ~body_handle.some)
    /\ [][InReqBody("pending") => (pc' # "serve" \/ bpc' = "pending")]_vars
    /\ [][(pc = "serve" /\ pc' # "serve") =>
             \/ pc' = "respond" /\ turn = "A" /\ body_handle' = body_handle
             \/ pc' = "done" /\ result' \in {"Service", "Io", "Closed"}]_vars

\* The request body was fed to its end and the service has not returned yet.
C27_Witness ==
    /\ InReqBody("pending") /\ chan = Gone("eof")
    /\ turn = "A"

\* The service returns its response: request_handler is left for response_handler.
ServiceReturns == pc = "serve" /\ pc' = "respond"

\* C28, as claimed: the handle passes unchanged into response_handler, and it is
\* None if the body was fed to its end or the receiver was dropped before the
\* service returned.
C28_NoHandleAfterDrop ==
    [][ServiceReturns =>
          /\ body_handle' = body_handle
          /\ (chan.eof \/ chan.dropped) => ~body_handle'.some]_vars

\* C28, as the code has it: the handle passes unchanged into response_handler,
\* decoder state, sender and read buffer as they were. It is None when the request
\* had no body, when the body was fed to its end, or when request_body_handler saw
\* the receiver dropped (wait_for_poll or handle.ready failed); otherwise it is Some,
\* also when the receiver was dropped and request_body_handler has not seen it.
C28_HandlePreserved ==
    /\ [][ServiceReturns =>
             /\ body_handle' = body_handle /\ chan' = chan /\ read_buf' = read_buf
             /\ body_handle'.some = chan.live]_vars
    /\ [](Serving => (body_handle.some = chan.live))

\* response_handler goes on with the request body the service left unfinished: a
\* chunk decoded during the response waits for the receiver.
C28_Witness ==
    /\ pc = "respond" /\ body_handle.some
    /\ chan.q > 0 /\ ~chan.dropped /\ resLeft > 0

\* The units of a response, as against 100 Continue and the canned error heads.
ResponseUnit(u) == u.k \in {"head", "body", "eof"}

\* The unit enqueued last, of the units written (`sent`) and those still in the
\* write buffer (`buf`); a unit of no request when nothing was enqueued yet.
LastEnqueued(sent, buf) ==
    IF buf # << >> THEN buf[Len(buf)]
    ELSE IF sent # << >> THEN sent[Len(sent)]
    ELSE [req |-> 0, k |-> "none"]

\* The step enqueues the unit `u` and nothing else.
Enqueues(u) == write_buf' = Append(write_buf, u) /\ wire' = wire

\* The stream yields a chunk and response_handler goes on.
ChunkTaken == resLeft' # resLeft /\ pc = "respond" /\ pc' = "respond"

\* C29: for a decoded request the response is enqueued as head, chunks, terminator.
\* encode_head is called on the step the service returns its response, once, with
\* nothing of the response enqueued before; encode is called once per chunk the
\* stream yields, during response_handler only; encode_eof is called once, on the
\* step response_handler returns Ok, after the last chunk. No unit of a response is
\* enqueued by any other step, every unit belongs to the request being served, and
\* when the next head is decoded the response of the request before is the last
\* thing enqueued, whole.
C29_ResponseEventsInOrder ==
    [][   /\ Len(write_buf') > Len(write_buf) =>
                LET u == write_buf'[Len(write_buf')]
                IN /\ Enqueues(u)
                   /\ ResponseUnit(u) =>
                         /\ u.req = cur
                         /\ u.k = "head" => ServiceReturns
                         /\ u.k = "body" => ChunkTaken
                         /\ u.k = "eof" => ResponseCompletes
          /\ pc' # pc =>
                /\ pc' = "respond" => ServiceReturns
                /\ ServiceReturns =>
                      /\ write_buf' = Append(write_buf, [req |-> cur, k |-> "head"])
                      /\ \A i \in 1..Len(wire) :
                             wire[i].req = cur => wire[i].k = "cont"
                      /\ \A i \in 1..Len(write_buf) :
                             write_buf[i].req = cur => write_buf[i].k = "cont"
                /\ pc = "respond" => (ResponseCompletes \/ pc' = "done")
                /\ (pc' = "decode" /\ cur >= 1) =>
                      /\ LastEnqueued(wire', write_buf').req = cur
                      /\ ResponseUnit(LastEnqueued(wire', write_buf'))
                      /\ resLeft' = 0
                /\ ResponseCompletes =>
                      /\ resLeft = 0
                      /\ write_buf' = IF encoder = "Chunked"
                                      THEN Append(write_buf, [req |-> cur, k |-> "eof"])
                                      ELSE write_buf
          /\ ChunkTaken =>
                /\ resLeft' = resLeft - 1
                /\ write_buf' = IF encoder = "Eof" THEN write_buf
                                ELSE Append(write_buf, [req |-> cur, k |-> "body"])
         ]_vars

\* A chunked response is enqueued whole, head, chunk and terminator, and the next
\* request is about to be decoded.
C29_Witness ==
    /\ pc = "decode" /\ cur = 1 /\ DecodeHeadResult(read_buf).res = "Ok"
    /\ Len(Output) = 3
    /\ Output[1].k = "head" /\ Output[2].k = "body" /\ Output[3].k = "eof"

\* run passes the pre-read gate.
GatePassed == pc = "gate" /\ pc' # "gate"

\* C30: at the pre-read gate, on Close the dispatcher goes to the shutdown of the
\* transport with the timer as it was, and leaves from there without a read; on
\* KeepAlive it sets the timer to now + ka_dur and goes on to the read; on Init it
\* goes on to the read with the timer as the caller armed it. No other step changes
\* the timer's deadline, so a read is awaited under a keep-alive deadline exactly
\* when the connection type at the gate was KeepAlive.
C30_GateAndTimer ==
    /\ [][GatePassed =>
             CASE ctype = "Close" ->
                    pc' = "shutdown" /\ shut' /\ timer' = timer
                    /\ read_buf' = read_buf /\ peer' = peer
               [] ctype = "KeepAlive" -> pc' = "read" /\ timer' = "ka"
               [] OTHER -> pc' = "read" /\ timer' = timer]_vars
    /\ [][timer' # timer => (GatePassed /\ ctype = "KeepAlive")]_vars
    /\ [][pc = "shutdown" =>
             \/ pc' = "shutdown" /\ read_buf' = read_buf
             \/ pc' = "done" /\ result' \in {"Ok", "Io"}]_vars
    /\ [](pc = "read" =>
             timer = (IF ctype = "KeepAlive" THEN "ka" ELSE "first"))

\* A response was served on a connection kept alive, and the next read is awaited
\* under the deadline update_timer set.
C30_Witness ==
    /\ pc = "read" /\ ctype = "KeepAlive" /\ timer = "ka"
    /\ cur >= 1 /\ wire # << >>

\* A position from which try_read is entered next: io.read at the top of run's loop,
\* io.read of _request_body_handler, and BufferedIo::ready of response_body_handler
\* (after decode returned Continue and the debug assertion), which may report
\* readable.
ReadAhead ==
    \/ pc = "read"
    \/ InReqBody("read")
    \/ pc = "respond" /\ bpc \in {"rdy0", "sel", "rd", "rw"}

\* C31: no transport read is attempted with the read buffer in backpressure. At
\* every position from which try_read is entered the read buffer is below its limit,
\* the debug assertion of response_body_handler included; while a request body is
\* decoded it is empty there, decode having returned Continue with every buffered
\* byte consumed.
C31_NoReadUnderBackpressure ==
    /\ ReadAhead => ~ReadBackpressure(read_buf)
    /\ (ReadAhead /\ Serving) => read_buf = << >>

\* Reads have ceased: the read buffer is at its limit with a request body being
\* decoded and more of the peer's bytes waiting on the transport.
C31_Witness ==
    /\ pc = "respond" /\ body_handle.some
    /\ ReadBackpressure(read_buf) /\ peer # << >>

\* response_body_handler is at handle.ready with the receiver dropped.
DropToBeSeen ==
    /\ pc = "respond" /\ turn = "B"
    /\ bpc \in {"rdy0", "sel"} /\ chan.dropped

\* response_body_handler has seen the receiver dropped and given the body up.
DropSeenInResponse == pc = "respond" /\ chan = Gone("err") /\ ~hist.ioErr

\* C32: when the receiver is dropped while the response is streamed, the failed
\* sender readiness sets the connection type to Close, the error is fed and the
\* handle dropped, with the response left as it is and response_handler going on;
\* from there response_handler is left only with the stream at its end and
\* encode_eof called, for drain_write; the transport is shut down only with the
\* write buffer empty; and on a connection where nothing else fails the response
\* does reach its end.
C32_DropDoesNotAbortResponse ==
    /\ [][(DropToBeSeen /\ chan' # chan) =>
             /\ pc' = "respond" /\ ctype' = "Close"
             /\ chan' = Gone("err") /\ ~body_handle'.some
             /\ resLeft' = resLeft /\ encoder' = encoder
             /\ write_buf' = write_buf /\ wire' = wire]_vars
    /\ [][(DropSeenInResponse /\ pc' # "respond") =>
             /\ pc' = "drain" /\ resLeft = 0
             /\ write_buf' = IF encoder = "Chunked"
                             THEN Append(write_buf, [req |-> cur, k |-> "eof"])
                             ELSE write_buf]_vars
    /\ [][(shut' /\ ~shut) => write_buf = << >>]_vars
    /\ DropSeenInResponse ~> (pc = "drain")

\* The drop was seen with a chunk of a chunked response and its terminator still to
\* come: the handle is gone, the connection type is Close, the response goes on.
C32_Witness ==
    /\ DropSeenInResponse /\ ctype = "Close" /\ ~body_handle.some
    /\ resLeft > 0 /\ encoder = "Chunked"

\* drain_write returns Ok to its caller.
DrainReturnsOk ==
    \/ pc = "drain" /\ pc' = "gate"
    \/ InReqBody("cont_drain") /\ pc' = "serve" /\ bpc' # "cont_drain"

\* C33: drain_write writes until want_write() is false. With bytes pending run does
\* not leave it but with an error, and then without another write; a write of
\* drain_write hands the transport the front of the buffer; when drain_write returns
\* Ok the write buffer is empty; and with a transport that accepts something of
\* every write, drain_write returns, Ok or with the error of a write that failed
\* (or, after 100 Continue, is cancelled by the service call).
C33_DrainWriteEmpties ==
    /\ [][DrainReturnsOk => (write_buf = << >> /\ write_buf' = << >>)]_vars
    /\ [][(pc = "drain" /\ WantWrite(write_buf)) =>
             \/ pc' = "drain" /\ wire' \o write_buf' = wire \o write_buf
                              /\ Len(write_buf') <= Len(write_buf)
             \/ pc' = "done" /\ result' = "Io" /\ wire' = wire]_vars
    /\ (pc = "drain") ~> (pc \in {"gate", "done"})
    /\ InReqBody("cont_drain") ~> ~InReqBody("cont_drain")

\* drain_write is half way: a part of the response is on the transport and two
\* units are still to be written.
C33_Witness ==
    /\ pc = "drain" /\ Len(write_buf) >= 2 /\ wire # << >>
    /\ wire[Len(wire)].req = write_buf[1].req

\* run awaits io.read() against the timer, or has invoked io.shutdown().
IdleOrShutdown == pc \in {"read", "shutdown"}

\* C34: whenever run awaits the read at the top of its loop or has invoked shutdown,
\* nothing is left to write: the write buffer is empty, and once a request was
\* answered the last unit enqueued (of its response, or the canned head of a request
\* error after it) is on the transport.
C34_NothingToWriteWhenIdle ==
    IdleOrShutdown =>
        /\ ~WantWrite(write_buf)
        /\ cur >= 1 => (wire # << >> /\ wire[Len(wire)].req >= cur)

\* The chunked response of the second request is on the transport to its
\* terminator, and run awaits the next read with both buffers empty.
C34_Witness ==
    /\ pc = "read" /\ cur = 2 /\ read_buf = << >> /\ write_buf = << >>
    /\ wire # << >> /\ wire[Len(wire)] = [req |-> 2, k |-> "eof"]

\* The connection type is Close and run has not returned.
ClosedAndRunning == ctype = "Close" /\ pc # "done"

\* C35, as claimed: Close is absorbing, and unless the transport fails the
\* dispatcher reaches the shutdown of the transport.
C35_CloseReachesShutdown ==
    /\ [][ctype = "Close" => ctype' = "Close"]_vars
    /\ ClosedAndRunning ~> (pc = "shutdown" \/ result = "Io")

\* C35, amended: Close is absorbing, and run returns from a closed connection
\* short of the shutdown only with an error; with a transport that stays writable,
\* a service that returns its response and a stream that comes to its end, the
\* dispatcher reaches the shutdown of the transport unless such an error ends it.
C35_CloseAbsorbing ==
    /\ [][ctype = "Close" => ctype' = "Close"]_vars
    /\ [][(ClosedAndRunning /\ pc' = "done") =>
             \/ pc = "shutdown" /\ result' \in {"Ok", "Io"}
             \/ pc # "shutdown" /\ result' \in {"Io", "Closed", "Body", "Service"}]_vars
    /\ ClosedAndRunning ~> (pc \in {"shutdown", "done"})

\* Close was set while a response with a chunk still to come is streamed behind a
\* write buffer at its limit.
C35_Witness ==
    /\ pc = "respond" /\ ctype = "Close"
    /\ resLeft > 0 /\ WriteBackpressure(write_buf)

\* run awaits io.read().timeout(timer) and the transport has bytes to read.
ReadReady == pc = "read" /\ peer # << >>

\* C36: in the race of the read at the top of run against the timer the read is
\* polled first.  With bytes to read the timeout is no outcome, whether the deadline
\* has passed or not, and the step that leaves the await is the read's (its bytes go
\* on to decode_head, or its error ends run); the timeout ends run only from a poll
\* in which the read was pending, and it can whenever the read is.
C36_ReadBeforeTimer ==
    /\ [](ReadReady => (TimeoutOutcomes(peer) = {"fut"} /\ ~ENABLED KeepAliveExpire))
    /\ []((pc = "read" /\ peer = << >>) => ENABLED KeepAliveExpire)
    /\ [][(ReadReady /\ pc' # pc) =>
             \/ pc' = "decode" /\ read_buf' \o peer' = read_buf \o peer
             \/ pc' = "done" /\ result' = "Io"]_vars
    /\ [][(pc = "read" /\ result' = "KeepAliveExpire") =>
             (peer = << >> /\ pc' = "done")]_vars

\* The read won the race for the first bytes of a connection whose caller armed the
\* timer: they are in the read buffer, on their way to decode_head.
C36_Witness ==
    /\ pc = "decode" /\ timer = "first"
    /\ cur = 0 /\ read_buf # << >>

\* ---------------------------------------------------------------------------
\* The older dispatcher (actix-http-alt/src/h1/proto/dispatcher.rs)
\* ---------------------------------------------------------------------------
\* It keeps the same buffers, context and body handle; bpc is "writable" while a
\* drain_write awaits the transport between two try_write calls.  Its requests bear
\* no Expect header, and it never shuts the transport down.

\* The dispatcher as the older Dispatcher::new leaves it, at the top of run: the
\* write buffer is WriteBuf::List or WriteBuf::Flat for the whole connection.
InitAlt ==
    /\ pc = "decode" /\ result = "none" /\ turn = "A" /\ bpc = "none"
    /\ ctype = "Init" /\ expect = FALSE
    /\ read_buf = << >> /\ write_buf = << >> /\ wire = << >>
    /\ body_handle = NoHandle /\ chan = NoChan
    /\ encoder = "Eof" /\ resLeft = 0 /\ cur = 0
    /\ peer = << >> /\ nreq = 0
    /\ shut = FALSE /\ timer = "ka" /\ hist = NoHist
    /\ force_close = FALSE /\ advanced = FALSE
    /\ vectored \in BOOLEAN

\* How a call of Io::try_write ends: the buffer is written out ("done"), or after n
\* units the transport would block, accepts zero bytes, or fails.
TryWriteEnds == {"done", "block", "zero", "err"}

\* A faulty Io::try_write whose flat buffer is not advanced on would-block.
AltTryWriteNoAdvance(vec, buf, sent, n, end) ==
    [end  |-> end,
     res  |-> CASE end = "done" -> "finished" [] end = "block" -> "blocked"
                [] end = "zero" -> "Closed" [] OTHER -> FromIoError("Other"),
     buf  |-> IF end = "done" THEN << >> ELSE IF vec THEN Drop(buf, n) ELSE buf,
     wire |-> sent \o Take(buf, n)]

\* Io::try_write on the transport that accepts n units and then ends the call as
\* `end`.  WriteBuf::List advances its queue after every write; WriteBuf::Flat
\* counts what was written, advances by it on would-block, clears the buffer when
\* all is written and leaves it alone when it returns Err.
AltTryWrite(vec, buf, sent, n, end) ==
    [end  |-> end,
     res  |-> CASE end = "done" -> "finished" [] end = "block" -> "blocked"
                [] end = "zero" -> "Closed" [] OTHER -> FromIoError("Other"),
     buf  |-> CASE end = "done" -> << >>
                [] end = "block" -> Drop(buf, n)
                [] OTHER -> IF vec THEN Drop(buf, n) ELSE buf,
     wire |-> sent \o Take(buf, n)]

\* The ways one call of Io::try_write can go on the write buffer `buf`: the loop
\* ends when nothing remains, and every other end needs something that remains.
AltTryWriteOutcomes(vec, buf, sent) ==
    { AltTryWrite(vec, buf, sent, Len(buf), "done") } \cup
    { AltTryWrite(vec, buf, sent, n, end) :
        n \in 0..(Len(buf) - 1), end \in TryWriteEnds \ {"done"} }

\* The older Dispatcher::run returns `res` with the write buffer as `o` left it.
AltReturn(res, o) ==
    /\ pc' = "done"
    /\ result' = res
    /\ bpc' = "none"
    /\ read_buf' = << >>
    /\ advanced' = FALSE
    /\ write_buf' = o.buf
    /\ wire' = o.wire
    /\ body_handle' = NoHandle
    /\ chan' = NoChan
    /\ encoder' = "Eof"
    /\ resLeft' = 0
    /\ peer' = << >>
    /\ UNCHANGED <<turn, conn, cur, nreq, shut, timer, force_close, vectored, hist>>

\* The write buffer and the transport as they are.
AltOut == [buf |-> write_buf, wire |-> wire]

\* Io::try_read returning Ok: read_buf.advance(false), then reads until would-block
\* or read backpressure, advance(true) after each that read something.
AltTryRead ==
    \E r \in TryRead(read_buf, peer) :
        /\ read_buf' = r.buf
        /\ peer' = r.peer
        /\ advanced' = (r.buf # read_buf)

\* RequestBodySender::poll_ready: Err once the receiver is dropped, Ok when the
\* channel has room, pending otherwise.
AltSenderReady(ch) ==
    IF ch.dropped THEN "Err" ELSE IF ch.q = 0 THEN "Ok" ELSE "Pending"

\* The older decode_head and the arm of run's match it selects: nothing is decoded
\* when the last try_read read nothing.
AltDecodeHead ==
    /\ pc = "decode"
    /\ LET d == IF advanced THEN DecodeHeadResult(read_buf)
                ELSE [res |-> "None", buf |-> read_buf]
       IN CASE d.res = "None" ->
                 /\ pc' = "drain"
                 /\ UNCHANGED <<result, sel, conn, read_buf, out, req, env, shut, timer,
                                alt, hist>>
            [] d.res = "Ok" ->
                 \E close \in BOOLEAN :
                    /\ read_buf' = d.buf
                    /\ ctype' = IF close THEN "Close" ELSE "KeepAlive"
                    /\ cur' = cur + 1
                    /\ body_handle' = NewHandle(read_buf[1])
                    /\ chan' = NewChan(read_buf[1])
                    /\ timer' = "ka"
                    /\ pc' = "serve"
                    /\ UNCHANGED <<result, sel, expect, out, encoder, resLeft, env, shut,
                                   alt, hist>>
            [] d.res = "TooLarge" ->
                 /\ force_close' = TRUE
                 /\ write_buf' = Append(write_buf, [req |-> cur + 1, k |-> "too_large"])
                 /\ pc' = "drain"
                 /\ UNCHANGED <<result, sel, conn, read_buf, wire, req, env, shut, timer,
                                advanced, vectored, hist>>
            [] OTHER ->
                 /\ AltReturn("Proto", AltOut)

\* request_handler: service.call resolves (arm A of the select, or fut.await after
\* it); an Err of the service is turned into a response.  run encodes the head and
\* enters response_handler with the body handle as request_handler left it.
AltSvcReturn ==
    /\ pc = "serve"
    /\ \E size \in {"None", "Sized", "Stream"}, n \in 0..MaxChunks :
          /\ size = "None" => n = 0
          /\ size = "Sized" => n > 0
          /\ encoder' = EncoderFor(size, n)
          /\ resLeft' = n
    /\ write_buf' = Append(write_buf, Item("head"))
    /\ pc' = "respond"
    /\ UNCHANGED <<result, sel, conn, read_buf, wire, body_handle, chan, cur, env, shut,
                   timer, alt, hist>>

\* What one turn of the loop of Io::handle_request_body, or the third arm of
\* response_handler's select, does once the sender is ready and the transport
\* readable: try_read, then decode and feed if it read something.  The bodies the
\* peer sends are well framed, so the decoder returns no Err.
AltFeedBody ==
    /\ AltSenderReady(chan) = "Ok"
    /\ ~ReadBackpressure(read_buf)
    /\ AltTryRead
    /\ IF advanced'
       THEN LET d == HandleDecode(body_handle, read_buf', 0)
            IN  /\ d.state # "Err"
                /\ body_handle' = IF d.state = "Eof" THEN NoHandle
                                  ELSE [body_handle EXCEPT !.rem = d.dec.rem]
                /\ chan' = IF d.state = "Eof" THEN Gone("eof")
                           ELSE [chan EXCEPT !.q = Min(1, @ + d.fed)]
       ELSE UNCHANGED <<body_handle, chan>>

\* The sender finds the receiver dropped: set_force_close, and the handle is gone.
AltBodyDropped ==
    /\ AltSenderReady(chan) = "Err"
    /\ force_close' = TRUE
    /\ body_handle' = NoHandle
    /\ chan' = Gone("drop")
    /\ UNCHANGED <<read_buf, peer, advanced>>

\* request_handler, arm B of its select: Io::handle_request_body.
AltReqBody ==
    /\ pc = "serve"
    /\ body_handle.some
    /\ \/ AltFeedBody /\ UNCHANGED force_close
       \/ AltBodyDropped
    /\ UNCHANGED <<pc, result, sel, conn, out, encoder, resLeft, cur, nreq, shut, timer,
                   vectored, hist>>

\* response_handler under write backpressure, and the drain_write it started: one
\* try_write, after which drain_write awaits the transport or returns.
AltResDrain ==
    /\ pc = "respond"
    /\ bpc = "writable" \/ WriteBackpressure(write_buf)
    /\ \E o \in AltTryWriteOutcomes(vectored, write_buf, wire) :
          IF o.res \in {"finished", "blocked"}
          THEN /\ write_buf' = o.buf
               /\ wire' = o.wire
               /\ bpc' = IF o.res = "blocked" THEN "writable" ELSE "none"
               /\ UNCHANGED <<pc, result, turn, conn, read_buf, req, env, shut, timer,
                              alt, hist>>
          ELSE AltReturn(o.res, o)

\* response_handler's select is open: no backpressure, no drain_write under way.
AltSelecting == pc = "respond" /\ bpc = "none" /\ ~WriteBackpressure(write_buf)

\* First arm: the response-body stream yields a chunk, which is encoded.
AltStreamChunk ==
    /\ AltSelecting
    /\ resLeft > 0
    /\ resLeft' = resLeft - 1
    /\ write_buf' = Encode(encoder, write_buf)
    /\ UNCHANGED <<pc, result, sel, conn, read_buf, wire, body_handle, chan, encoder, cur,
                   env, shut, timer, alt, hist>>

\* First arm: the stream ends; encode_eof, response_handler returns Ok and run
\* calls decode_head again.
AltStreamEnd ==
    /\ AltSelecting
    /\ resLeft = 0
    /\ write_buf' = EncodeEof(encoder, write_buf)
    /\ pc' = "decode"
    /\ body_handle' = NoHandle
    /\ chan' = IF chan.live THEN Gone("err") ELSE chan
    /\ UNCHANGED <<result, sel, conn, read_buf, wire, encoder, resLeft, cur, env, shut,
                   timer, alt, hist>>

\* First arm: the stream yields Err, which run returns.
AltStreamError ==
    /\ AltSelecting
    /\ resLeft > 0
    /\ AltReturn("Body", AltOut)

\* Second arm: the transport is writable with bytes pending; try_write, whose Ok is
\* ignored.
AltResWrite ==
    /\ AltSelecting
    /\ write_buf # << >>
    /\ \E o \in AltTryWriteOutcomes(vectored, write_buf, wire) :
          IF o.res \in {"finished", "blocked"}
          THEN /\ write_buf' = o.buf
               /\ wire' = o.wire
               /\ UNCHANGED <<pc, result, sel, conn, read_buf, req, env, shut, timer,
                              alt, hist>>
          ELSE AltReturn(o.res, o)

\* Third arm: Io::request_body_ready and what follows it.
AltResBody ==
    /\ AltSelecting
    /\ body_handle.some
    /\ \/ AltFeedBody /\ UNCHANGED force_close
       \/ AltBodyDropped
    /\ UNCHANGED <<pc, result, sel, conn, out, encoder, resLeft, cur, nreq, shut, timer,
                   vectored, hist>>

\* Where run goes after the drain_write that follows the inner loop: the read on a
\* connection that is neither closed nor force-closed, else it returns Ok.
AltAfterDrain(ct, force) == IF ct = "Close" \/ force THEN "done" ELSE "read"

\* drain_write after the inner loop, one try_write at a time, and the match on the
\* connection type once it returned.
AltDrain ==
    /\ pc = "drain"
    /\ \E o \in AltTryWriteOutcomes(vectored, write_buf, wire) :
          CASE o.res = "blocked" ->
                 /\ write_buf' = o.buf
                 /\ wire' = o.wire
                 /\ bpc' = "writable"
                 /\ UNCHANGED <<pc, result, turn, conn, read_buf, req, env, shut, timer,
                                alt, hist>>
            [] o.res = "finished" /\ AltAfterDrain(ctype, force_close) = "read" ->
                 /\ write_buf' = o.buf
                 /\ wire' = o.wire
                 /\ bpc' = "none"
                 /\ pc' = "read"
                 /\ UNCHANGED <<result, turn, conn, read_buf, req, env, shut, timer,
                                alt, hist>>
            [] o.res = "finished" /\ AltAfterDrain(ctype, force_close) = "done" ->
                 AltReturn("Ok", o)
            [] OTHER -> AltReturn(o.res, o)

\* The select of io.read() against the timer, biased to the read: the transport is
\* readable, try_read returns Ok and run calls decode_head.
AltRead ==
    /\ pc = "read"
    /\ "fut" \in TimeoutOutcomes(peer)
    /\ AltTryRead
    /\ pc' = "decode"
    /\ UNCHANGED <<result, sel, conn, out, req, nreq, shut, timer, force_close, vectored,
                   hist>>

\* The read is pending and the timer fires: run returns Ok.
AltKeepAliveExpire ==
    /\ pc = "read"
    /\ "timeout" \in TimeoutOutcomes(peer)
    /\ AltReturn("Ok", AltOut)

\* The older dispatcher is in try_read.
AltAtTryRead ==
    \/ pc = "read"
    \/ pc = "serve" /\ body_handle.some /\ AltSenderReady(chan) = "Ok"
    \/ AltSelecting /\ body_handle.some /\ AltSenderReady(chan) = "Ok"

\* try_read reads zero bytes, which the older dispatcher returns as Error::Closed.
AltPeerEof ==
    /\ AltAtTryRead
    /\ peer = << >>
    /\ AltReturn("Closed", AltOut)

\* A readiness wait, a read or the flush of drain_write fails.
AltIoError ==
    /\ AltAtTryRead \/ pc = "drain" \/ (pc = "respond" /\ write_buf # << >>)
    /\ AltReturn(FromIoError("Other"), AltOut)

NextAlt ==
    \/ PeerSend \/ PeerSendBad
    \/ AltDecodeHead \/ AltDrain \/ AltRead \/ AltKeepAliveExpire
    \/ SvcPollBody \/ SvcDropBody \/ AltSvcReturn \/ AltReqBody
    \/ AltResDrain \/ AltStreamChunk \/ AltStreamEnd \/ AltStreamError
    \/ AltResWrite \/ AltResBody
    \/ AltPeerEof \/ AltIoError

SpecAlt == InitAlt /\ [][NextAlt]_vars

\* The older dispatcher is where it calls Io::try_write: in a drain_write, or at
\* the second arm of response_handler's select.
AltAtTryWrite ==
    \/ pc = "drain"
    \/ pc = "respond" /\ (bpc = "writable" \/ write_buf # << >>)

\* C37: Io::try_write hands the write buffer to the transport first in, first out,
\* without loss or duplication across successive calls.  A call that would block
\* returns Ok(true) and leaves exactly the units not yet written, a call that
\* writes everything returns Ok(false) with the buffer empty, and a write of zero
\* bytes returns Error::Closed.  Whenever a call was made and run goes on, what
\* the transport holds followed by what the buffer holds is what it was before;
\* a drain_write that goes on awaiting has units left, one that returns has none.
C37_TryWriteFifo ==
    /\ [](AltAtTryWrite =>
            \A o \in AltTryWriteOutcomes(vectored, write_buf, wire) :
               /\ o.end = "block" => /\ o.res = "blocked"
                                     /\ o.buf # << >>
                                     /\ o.wire \o o.buf = wire \o write_buf
               /\ o.end = "done" => /\ o.res = "finished"
                                    /\ o.buf = << >>
                                    /\ o.wire = wire \o write_buf
               /\ o.end = "zero" => o.res = "Closed")
    /\ [][(wire' # wire /\ pc' # "done") =>
             wire' \o write_buf' = wire \o write_buf]_vars
    /\ [][(AltAtTryWrite /\ pc' = "done" /\ result' = "Ok") =>
             (write_buf' = << >> /\ wire' = wire \o write_buf)]_vars
    /\ [](bpc = "writable" => write_buf # << >>)
    /\ [][(pc = "drain" /\ pc' = "read") => write_buf' = << >>]_vars

\* A drain_write of the flat write buffer awaits the transport after a try_write
\* that would block half way: one unit of the response is on the transport and
\* two are left for the next call.
C37_Witness ==
    /\ pc = "drain" /\ bpc = "writable" /\ ~vectored
    /\ wire # << >> /\ Len(write_buf) >= 2
    /\ wire[Len(wire)].req = write_buf[1].req

\* The connection is marked Close or force-close.
AltClosed == ctype = "Close" \/ force_close

\* C38, as claimed: when a response has completed on a connection marked Close or
\* force-close, the decode_head that run calls next does not hand a further
\* request, already in the read buffer, to the service.
C38_NoRequestAfterClose ==
    [][(pc = "decode" /\ cur >= 1 /\ AltClosed) => pc' # "serve"]_vars

====
